---- MODULE Spec2Model ----
(***************************************************************************)
(* Model of src/main.py of MaksimKudrik/tgbot: the weight calculation      *)
(* (calculate_weight over EXERCISE_MAPPING), the plan renderer             *)
(* (format_workout_plan) and the handlers of the entry dialogue.           *)
(*                                                                         *)
(* Python floats are IEEE-754 binary64 values.  They are modelled bit for  *)
(* bit: a float is a record [sgn, m, e] standing for sgn * m * 2^e with a  *)
(* 53-bit mantissa m held as a little-endian sequence of 15-bit limbs, and *)
(* every operation rounds to nearest, ties to even, as the hardware does.  *)
(* Python strings are sequences of Unicode code points.                    *)
(***************************************************************************)
EXTENDS Integers, Sequences, FiniteSets, TLC

\* ------------------------------------------------------------ big naturals
Base == 2^15

RECURSIVE Trim(_)
Trim(a) == IF a = <<>> THEN a
           ELSE IF a[Len(a)] = 0 THEN Trim(SubSeq(a, 1, Len(a) - 1)) ELSE a

RECURSIVE BigFromInt(_)
BigFromInt(n) == IF n = 0 THEN <<>> ELSE <<n % Base>> \o BigFromInt(n \div Base)

RECURSIVE BigToInt(_)
BigToInt(a) == IF a = <<>> THEN 0 ELSE a[1] + Base * BigToInt(Tail(a))

\* a * k + c for a limb k
RECURSIVE MulSmall(_, _, _)
MulSmall(a, k, c) ==
    IF a = <<>> THEN BigFromInt(c)
    ELSE LET t == a[1] * k + c IN <<t % Base>> \o MulSmall(Tail(a), k, t \div Base)

RECURSIVE BigAdd(_, _, _)
BigAdd(a, b, c) ==
    IF a = <<>> /\ b = <<>> THEN BigFromInt(c)
    ELSE LET x == IF a = <<>> THEN 0 ELSE a[1]
             y == IF b = <<>> THEN 0 ELSE b[1]
             t == x + y + c
         IN <<t % Base>> \o BigAdd(IF a = <<>> THEN a ELSE Tail(a),
                                   IF b = <<>> THEN b ELSE Tail(b), t \div Base)

RECURSIVE BigMul(_, _)
BigMul(a, b) ==
    IF b = <<>> \/ a = <<>> THEN <<>>
    ELSE BigAdd(MulSmall(a, b[1], 0), <<0>> \o BigMul(a, Tail(b)), 0)

\* quotient and remainder of a by a limb d
RECURSIVE DivSmall(_, _)
DivSmall(a, d) ==
    IF a = <<>> THEN [q |-> <<>>, r |-> 0]
    ELSE LET hi == DivSmall(Tail(a), d)
             cur == hi.r * Base + a[1]
         IN [q |-> <<cur \div d>> \o hi.q, r |-> cur % d]

RECURSIVE BitLenSmall(_)
BitLenSmall(n) == IF n = 0 THEN 0 ELSE 1 + BitLenSmall(n \div 2)

\* a limb holds LimbBits bits; a binary64 mantissa holds MantBits bits
LimbBits == BitLenSmall(Base - 1)
MantBits == 53

BitLen(a) ==
    LET t == Trim(a)
    IN IF t = <<>> THEN 0 ELSE LimbBits * (Len(t) - 1) + BitLenSmall(t[Len(t)])

ShiftRight(a, s) ==
    LET q == s \div LimbBits
        r == s % LimbBits
    IN Trim([j \in 1..(IF Len(a) > q THEN Len(a) - q ELSE 0) |->
              (a[j + q] \div 2^r)
              + (IF j + q + 1 <= Len(a)
                 THEN (a[j + q + 1] % 2^r) * 2^(LimbBits - r) ELSE 0)])

ShiftLeft(a, s) ==
    [j \in 1..(s \div LimbBits) |-> 0] \o MulSmall(a, 2^(s % LimbBits), 0)

BitAt(a, i) ==
    LET limb == i \div LimbBits + 1
    IN IF i < 0 \/ limb > Len(a) THEN 0 ELSE (a[limb] \div 2^(i % LimbBits)) % 2

\* some bit of a below position i is set
AnyBelow(a, i) ==
    /\ i > 0
    /\ \/ \E j \in 1..Len(a) : j <= i \div LimbBits /\ a[j] # 0
       \/ /\ i \div LimbBits + 1 <= Len(a)
          /\ a[i \div LimbBits + 1] % 2^(i % LimbBits) # 0

\* the number of zero limbs at the low end of a
RECURSIVE LowZeroLimbs(_)
LowZeroLimbs(a) == IF a = <<>> \/ a[1] # 0 THEN 0 ELSE 1 + LowZeroLimbs(Tail(a))

\* -1, 0, 1 as a < b, a = b, a > b (both trimmed)
RECURSIVE BigCmp(_, _)
BigCmp(a, b) ==
    IF Len(a) # Len(b) THEN (IF Len(a) < Len(b) THEN -1 ELSE 1)
    ELSE IF a = <<>> THEN 0
    ELSE IF a[Len(a)] # b[Len(b)] THEN (IF a[Len(a)] < b[Len(b)] THEN -1 ELSE 1)
    ELSE BigCmp(SubSeq(a, 1, Len(a) - 1), SubSeq(b, 1, Len(b) - 1))

\* --------------------------------------------------------- binary64 floats
FZero == [sgn |-> 1, m |-> <<>>, e |-> 0]

\* n without its s low bits, rounded to nearest: up when the dropped part is
\* above one half, or is one half and the kept part is odd (ties to even)
DropBits(n, s, sticky) ==
    IF /\ BitAt(n, s - 1) = 1
       /\ (AnyBelow(n, s - 1) \/ sticky \/ BitAt(n, s) = 1)
    THEN Trim(BigAdd(ShiftRight(n, s), <<>>, 1))
    ELSE ShiftRight(n, s)

\* the float sgn * q * 2^e of a rounded mantissa q, which is one bit too long
\* when the rounding carried into a new bit
Renormalise(sgn, q, e) ==
    IF BitLen(q) > MantBits THEN [sgn |-> sgn, m |-> ShiftRight(q, 1), e |-> e + 1]
    ELSE [sgn |-> sgn, m |-> q, e |-> e]

\* the float nearest to sgn * (n + f) * 2^e for a trimmed n of L bits
RoundBits(sgn, n, L, e, sticky) ==
    IF L = 0 THEN FZero
    ELSE IF L <= MantBits
         THEN [sgn |-> sgn, m |-> Trim(ShiftLeft(n, MantBits - L)), e |-> e - (MantBits - L)]
         ELSE Renormalise(sgn, DropBits(n, L - MantBits, sticky), e + (L - MantBits))

\* the float nearest to sgn * (n + f) * 2^e, where 0 <= f < 1 and sticky says f > 0
RoundMant(sgn, n0, e, sticky) == RoundBits(sgn, Trim(n0), BitLen(n0), e, sticky)

\* x * y
FMul(x, y) ==
    IF x.m = <<>> \/ y.m = <<>> THEN FZero
    ELSE RoundMant(x.sgn * y.sgn, BigMul(x.m, y.m), x.e + y.e, FALSE)

\* x / y, for a divisor whose mantissa has one non-zero limb (2.0, 2.5 and 5.0,
\* the increments of the catalog, are such)
FDiv(x, y) ==
    LET z == LowZeroLimbs(y.m)
        d == y.m[z + 1]
        dv == DivSmall(ShiftLeft(x.m, 2 * LimbBits), d)
    IN IF x.m = <<>> THEN FZero
       ELSE IF Len(y.m) # z + 1 THEN CHOOSE f \in {} : TRUE
       ELSE RoundMant(x.sgn * y.sgn, dv.q, x.e - 2 * LimbBits - (y.e + z * LimbBits),
                      dv.r # 0)

\* -1, 0, 1 as x < y, x = y, x > y
FCmp(x, y) ==
    LET mag == IF x.e # y.e THEN (IF x.e < y.e THEN -1 ELSE 1) ELSE BigCmp(x.m, y.m)
    IN IF x.m = <<>> /\ y.m = <<>> THEN 0
       ELSE IF x.m = <<>> THEN -y.sgn
       ELSE IF y.m = <<>> THEN x.sgn
       ELSE IF x.sgn # y.sgn THEN x.sgn
       ELSE x.sgn * mag

\* float(n): an int as a float
IntToFloat(n) == RoundMant(IF n < 0 THEN -1 ELSE 1, BigFromInt(IF n < 0 THEN -n ELSE n), 0, FALSE)

\* the float a decimal numeral n/d denotes (d a power of ten): the nearest one
Literal(n, d) ==
    LET a == IF n < 0 THEN -n ELSE n
        dv == DivSmall(ShiftLeft(BigFromInt(a), 5 * LimbBits), d)
    IN RoundMant(IF n < 0 THEN -1 ELSE 1, dv.q, -5 * LimbBits, dv.r # 0)

\* the integer nearest to sgn * n * 2^e (e < 0), ties to even
RoundToInt(sgn, n, e) ==
    LET s == -e
        q == ShiftRight(n, s)
        up == BitAt(n, s - 1) = 1 /\ (AnyBelow(n, s - 1) \/ BitAt(q, 0) = 1)
    IN sgn * (BigToInt(q) + IF up THEN 1 ELSE 0)

\* round(x) of Python 3
PyRound(x) == IF x.m = <<>> THEN 0 ELSE RoundToInt(x.sgn, x.m, x.e)

\* f"{x:.1f}": the decimal with one fractional digit nearest to x, given as the
\* signed number of tenths it shows ("62.5" is 625)
Format1f(x) == IF x.m = <<>> THEN 0 ELSE RoundToInt(x.sgn, MulSmall(x.m, 10, 0), x.e)

\* min(a, b) and max(a, b) of Python: the first argument unless the second is
\* strictly smaller (larger)
PyMin(a, b) == IF FCmp(b, a) < 0 THEN b ELSE a
PyMax(a, b) == IF FCmp(b, a) > 0 THEN b ELSE a

\* ------------------------------------------------------------------ strings
\* str.lower() on one code point: Latin A-Z, Cyrillic U+0410-U+042F (+32) and
\* U+0400-U+040F (+80, which holds the capital io); every other code point of
\* the texts of this program is left as it is
LowerChar(c) ==
    IF c >= 65 /\ c <= 90 THEN c + 32
    ELSE IF c >= 1040 /\ c <= 1071 THEN c + 32
    ELSE IF c >= 1024 /\ c <= 1039 THEN c + 80
    ELSE c

Lower(s) == [i \in DOMAIN s |-> LowerChar(s[i])]

\* Python's None, where a record or a text may stand
None == [kind |-> "None"]
\* pandas' NaN, the value of a text field the CSV row does not have: a float, no
\* str; given as a sequence that is no sequence of code points
NaN == <<-1>>

\* ---------------------------------------------------------------- the texts
\* intensity labels of CSV_DATA: "legkaya", "srednyaya", "tyazhelaya"
In_legkaya == <<1083, 1077, 1075, 1082, 1072, 1103>>
In_srednyaya == <<1089, 1088, 1077, 1076, 1085, 1103, 1103>>
In_tyazhelaya == <<1090, 1103, 1078, 1077, 1083, 1072, 1103>>
\* "tyazhyolaya", the heavy label spelled with the letter io
In_tyazhyolaya == <<1090, 1103, 1078, 1105, 1083, 1072, 1103>>
\* "Srednyaya", capitalised
In_Srednyaya == <<1057, 1088, 1077, 1076, 1085, 1103, 1103>>
\* the empty text
In_empty == <<>>
\* "propustit", the skip word of the entry dialogue
Txt_propustit == <<1087, 1088, 1086, 1087, 1091, 1089, 1090, 1080, 1090, 1100>>

\* days of CSV_DATA: "ponedelnik", "sreda", "pyatnitsa"
Day_ponedelnik == <<1087, 1086, 1085, 1077, 1076, 1077, 1083, 1100, 1085, 1080, 1082>>
Day_sreda == <<1089, 1088, 1077, 1076, 1072>>
Day_pyatnitsa == <<1087, 1103, 1090, 1085, 1080, 1094, 1072>>

\* exercise names, the keys of EXERCISE_MAPPING
\* "zhim lyozha" (src/main.py:330)
Ex_zhim_lyozha == <<1078, 1080, 1084, 32, 1083, 1105, 1078, 1072>>
\* "prised so shtangoy" (src/main.py:331)
Ex_prised_so_shtangoy == <<1087, 1088, 1080, 1089, 1077, 1076, 32, 1089, 1086, 32, 1096, 1090, 1072, 1085, 1075, 1086, 1081>>
\* "klassicheskaya tyaga" (src/main.py:332)
Ex_klassicheskaya_tyaga == <<1082, 1083, 1072, 1089, 1089, 1080, 1095, 1077, 1089, 1082, 1072, 1103, 32, 1090, 1103, 1075, 1072>>
\* "tyaga vertikalnogo bloka" (src/main.py:333)
Ex_tyaga_vertikalnogo_bloka == <<1090, 1103, 1075, 1072, 32, 1074, 1077, 1088, 1090, 1080, 1082, 1072, 1083, 1100, 1085, 1086, 1075, 1086, 32, 1073, 1083, 1086, 1082, 1072>>
\* "tyaga gorizontalnogo bloka" (src/main.py:334)
Ex_tyaga_gorizontalnogo_bloka == <<1090, 1103, 1075, 1072, 32, 1075, 1086, 1088, 1080, 1079, 1086, 1085, 1090, 1072, 1083, 1100, 1085, 1086, 1075, 1086, 32, 1073, 1083, 1086, 1082, 1072>>
\* "shragi s gantelyami" (src/main.py:335)
Ex_shragi_s_gantelyami == <<1096, 1088, 1072, 1075, 1080, 32, 1089, 32, 1075, 1072, 1085, 1090, 1077, 1083, 1103, 1084, 1080>>
\* "kosichka" (src/main.py:336)
Ex_kosichka == <<1082, 1086, 1089, 1080, 1095, 1082, 1072>>
\* "frantsuzskiy zhim lyozha" (src/main.py:337)
Ex_frantsuzskiy_zhim_lyozha == <<1092, 1088, 1072, 1085, 1094, 1091, 1079, 1089, 1082, 1080, 1081, 32, 1078, 1080, 1084, 32, 1083, 1105, 1078, 1072>>
\* "sgibaniya na bitseps ez grifa" (src/main.py:338)
Ex_sgibaniya_na_bitseps_ez_grifa == <<1089, 1075, 1080, 1073, 1072, 1085, 1080, 1103, 32, 1085, 1072, 32, 1073, 1080, 1094, 1077, 1087, 1089, 32, 101, 122, 32, 1075, 1088, 1080, 1092, 1072>>
\* "podem na bitseps s pryamym grifom" (src/main.py:339)
Ex_podem_na_bitseps_s_pryamym_grifom == <<1087, 1086, 1076, 1098, 1077, 1084, 32, 1085, 1072, 32, 1073, 1080, 1094, 1077, 1087, 1089, 32, 1089, 32, 1087, 1088, 1103, 1084, 1099, 1084, 32, 1075, 1088, 1080, 1092, 1086, 1084>>
\* "molotki" (src/main.py:340)
Ex_molotki == <<1084, 1086, 1083, 1086, 1090, 1082, 1080>>
\* "perednyaya delta" (src/main.py:341)
Ex_perednyaya_delta == <<1087, 1077, 1088, 1077, 1076, 1085, 1103, 1103, 32, 1076, 1077, 1083, 1100, 1090, 1072>>
\* "mahi na srednyuyu deltu" (src/main.py:342)
Ex_mahi_na_srednyuyu_deltu == <<1084, 1072, 1093, 1080, 32, 1085, 1072, 32, 1089, 1088, 1077, 1076, 1085, 1102, 1102, 32, 1076, 1077, 1083, 1100, 1090, 1091>>
\* "otvedeniya na delty" (src/main.py:343)
Ex_otvedeniya_na_delty == <<1086, 1090, 1074, 1077, 1076, 1077, 1085, 1080, 1103, 32, 1085, 1072, 32, 1076, 1077, 1083, 1100, 1090, 1099>>
\* "podem na noski v smite" (src/main.py:344)
Ex_podem_na_noski_v_smite == <<1087, 1086, 1076, 1098, 1077, 1084, 32, 1085, 1072, 32, 1085, 1086, 1089, 1082, 1080, 32, 1074, 32, 1089, 1084, 1080, 1090, 1077>>
\* "sgibanie na predpleche" (src/main.py:345)
Ex_sgibanie_na_predpleche == <<1089, 1075, 1080, 1073, 1072, 1085, 1080, 1077, 32, 1085, 1072, 32, 1087, 1088, 1077, 1076, 1087, 1083, 1077, 1095, 1100, 1077>>
\* "razgibanie na predpleche" (src/main.py:346)
Ex_razgibanie_na_predpleche == <<1088, 1072, 1079, 1075, 1080, 1073, 1072, 1085, 1080, 1077, 32, 1085, 1072, 32, 1087, 1088, 1077, 1076, 1087, 1083, 1077, 1095, 1100, 1077>>
\* "razgibaniya nog v trenazhere" (src/main.py:347)
Ex_razgibaniya_nog_v_trenazhere == <<1088, 1072, 1079, 1075, 1080, 1073, 1072, 1085, 1080, 1103, 32, 1085, 1086, 1075, 32, 1074, 32, 1090, 1088, 1077, 1085, 1072, 1078, 1077, 1088, 1077>>
\* "sgibaniya nog v trenazhere" (src/main.py:348)
Ex_sgibaniya_nog_v_trenazhere == <<1089, 1075, 1080, 1073, 1072, 1085, 1080, 1103, 32, 1085, 1086, 1075, 32, 1074, 32, 1090, 1088, 1077, 1085, 1072, 1078, 1077, 1088, 1077>>
\* "zhim ganteley lyozha 30deg" (src/main.py:349)
Ex_zhim_ganteley_lyozha_30deg == <<1078, 1080, 1084, 32, 1075, 1072, 1085, 1090, 1077, 1083, 1077, 1081, 32, 1083, 1105, 1078, 1072, 32, 51, 48, 176>>
\* "Zhim Lyozha", the first key with capitals
Ex_Zhim_Lyozha == <<1046, 1080, 1084, 32, 1051, 1105, 1078, 1072>>
\* "bogus_exercise_1" and "bogus_exercise_2", names that are no key
Ex_bogus_exercise_1 == <<98, 111, 103, 117, 115, 95, 101, 120, 101, 114, 99, 105, 115, 101, 95, 49>>
Ex_bogus_exercise_2 == <<98, 111, 103, 117, 115, 95, 101, 120, 101, 114, 99, 105, 115, 101, 95, 50>>
\* the exercise of the CSV row that has one field only (src/main.py:233)
Ex_s_medicale == <<1089, 32, 109, 233, 100, 105, 99, 97, 108, 101>>

\* ---------------------------------------------------------------- the catalog
\* Literal(n, d) is the float that the decimal literal n/d of the source denotes
\* (<<55, 100>> for 0.55, <<25, 10>> for 2.5).
EXERCISE_MAPPING ==
       (Ex_zhim_lyozha :> [main_lift |-> "bench_press", scale |-> <<100, 100>>, min_weight |-> <<200, 10>>, max_weight |-> <<5000, 10>>, increment |-> <<25, 10>>])
    @@ (Ex_prised_so_shtangoy :> [main_lift |-> "squat", scale |-> <<100, 100>>, min_weight |-> <<200, 10>>, max_weight |-> <<6000, 10>>, increment |-> <<25, 10>>])
    @@ (Ex_klassicheskaya_tyaga :> [main_lift |-> "deadlift", scale |-> <<100, 100>>, min_weight |-> <<200, 10>>, max_weight |-> <<7000, 10>>, increment |-> <<25, 10>>])
    @@ (Ex_tyaga_vertikalnogo_bloka :> [main_lift |-> "bench_press", scale |-> <<55, 100>>, min_weight |-> <<100, 10>>, max_weight |-> <<1200, 10>>, increment |-> <<25, 10>>])
    @@ (Ex_tyaga_gorizontalnogo_bloka :> [main_lift |-> "bench_press", scale |-> <<55, 100>>, min_weight |-> <<100, 10>>, max_weight |-> <<1200, 10>>, increment |-> <<25, 10>>])
    @@ (Ex_shragi_s_gantelyami :> [main_lift |-> "deadlift", scale |-> <<20, 100>>, min_weight |-> <<40, 10>>, max_weight |-> <<800, 10>>, increment |-> <<20, 10>>])
    @@ (Ex_kosichka :> [main_lift |-> "bench_press", scale |-> <<50, 100>>, min_weight |-> <<50, 10>>, max_weight |-> <<500, 10>>, increment |-> <<25, 10>>])
    @@ (Ex_frantsuzskiy_zhim_lyozha :> [main_lift |-> "bench_press", scale |-> <<25, 100>>, min_weight |-> <<100, 10>>, max_weight |-> <<600, 10>>, increment |-> <<25, 10>>])
    @@ (Ex_sgibaniya_na_bitseps_ez_grifa :> [main_lift |-> "bench_press", scale |-> <<25, 100>>, min_weight |-> <<50, 10>>, max_weight |-> <<500, 10>>, increment |-> <<25, 10>>])
    @@ (Ex_podem_na_bitseps_s_pryamym_grifom :> [main_lift |-> "bench_press", scale |-> <<30, 100>>, min_weight |-> <<100, 10>>, max_weight |-> <<500, 10>>, increment |-> <<25, 10>>])
    @@ (Ex_molotki :> [main_lift |-> "bench_press", scale |-> <<20, 100>>, min_weight |-> <<40, 10>>, max_weight |-> <<300, 10>>, increment |-> <<20, 10>>])
    @@ (Ex_perednyaya_delta :> [main_lift |-> "bench_press", scale |-> <<18, 100>>, min_weight |-> <<40, 10>>, max_weight |-> <<250, 10>>, increment |-> <<20, 10>>])
    @@ (Ex_mahi_na_srednyuyu_deltu :> [main_lift |-> "bench_press", scale |-> <<15, 100>>, min_weight |-> <<20, 10>>, max_weight |-> <<250, 10>>, increment |-> <<20, 10>>])
    @@ (Ex_otvedeniya_na_delty :> [main_lift |-> "bench_press", scale |-> <<20, 100>>, min_weight |-> <<100, 10>>, max_weight |-> <<350, 10>>, increment |-> <<20, 10>>])
    @@ (Ex_podem_na_noski_v_smite :> [main_lift |-> "squat", scale |-> <<30, 100>>, min_weight |-> <<300, 10>>, max_weight |-> <<1000, 10>>, increment |-> <<50, 10>>])
    @@ (Ex_sgibanie_na_predpleche :> [main_lift |-> "bench_press", scale |-> <<60, 100>>, min_weight |-> <<250, 10>>, max_weight |-> <<600, 10>>, increment |-> <<25, 10>>])
    @@ (Ex_razgibanie_na_predpleche :> [main_lift |-> "bench_press", scale |-> <<60, 100>>, min_weight |-> <<250, 10>>, max_weight |-> <<600, 10>>, increment |-> <<25, 10>>])
    @@ (Ex_razgibaniya_nog_v_trenazhere :> [main_lift |-> "squat", scale |-> <<60, 100>>, min_weight |-> <<300, 10>>, max_weight |-> <<1000, 10>>, increment |-> <<50, 10>>])
    @@ (Ex_sgibaniya_nog_v_trenazhere :> [main_lift |-> "squat", scale |-> <<60, 100>>, min_weight |-> <<300, 10>>, max_weight |-> <<900, 10>>, increment |-> <<50, 10>>])
    @@ (Ex_zhim_ganteley_lyozha_30deg :> [main_lift |-> "bench_press", scale |-> <<30, 100>>, min_weight |-> <<100, 10>>, max_weight |-> <<500, 10>>, increment |-> <<20, 10>>])

\* a default profile with the increment of the main lifts
DefaultMapping_CoarseIncrement ==
    [main_lift |-> "bench_press", scale |-> <<30, 100>>, min_weight |-> <<50, 10>>,
     max_weight |-> <<800, 10>>, increment |-> <<50, 10>>]

\* a default profile whose clamping range is empty
DefaultMapping_MinAboveMax ==
    [main_lift |-> "bench_press", scale |-> <<30, 100>>, min_weight |-> <<800, 10>>,
     max_weight |-> <<50, 10>>, increment |-> <<25, 10>>]

\* the profile calculate_weight uses for a name that is no key
DefaultMapping ==
    [main_lift |-> "bench_press", scale |-> <<30, 100>>, min_weight |-> <<50, 10>>,
     max_weight |-> <<800, 10>>, increment |-> <<25, 10>>]

\* dict.get(key, default)
DictGet(d, key, default) == IF key \in DOMAIN d THEN d[key] ELSE default

\* the intensity bands, as the literals of the code
Pct50 == Literal(50, 100)
Pct60 == Literal(60, 100)
Pct70 == Literal(70, 100)
Pct80 == Literal(80, 100)

\* ------------------------------------------------------------ calculate_weight
\* The returned str is one of three texts; the range text is given by the two
\* numbers it shows, in tenths of a kilogram.
UnknownIntensityText == [kind |-> "unknown_intensity"]
ErrorText == [kind |-> "error"]
RangeText(low, high) == [kind |-> "range", low |-> Format1f(low), high |-> Format1f(high)]

\* a str, and not the float NaN that pandas puts in an empty cell
IsStr(v) == v # NaN

\* round(v / increment) * increment
RoundToIncrement(v, mapping) ==
    FMul(IntToFloat(PyRound(FDiv(v, mapping.increment))), mapping.increment)

\* max(min_weight, min(max_weight, rounded))
Clamp(rounded, mapping) ==
    PyMax(mapping.min_weight, PyMin(mapping.max_weight, rounded))

RoundAndClamp_ClampFirst(v, mapping) == RoundToIncrement(Clamp(v, mapping), mapping)
RoundAndClamp_NoUpperClamp(v, mapping) ==
    PyMax(mapping.min_weight, RoundToIncrement(v, mapping))
RoundAndClamp_NoLowerClamp(v, mapping) ==
    PyMin(mapping.max_weight, RoundToIncrement(v, mapping))
RoundAndClamp_ResetAboveMax(v, mapping) ==
    IF FCmp(RoundToIncrement(v, mapping), mapping.max_weight) > 0 THEN mapping.min_weight
    ELSE PyMax(mapping.min_weight, RoundToIncrement(v, mapping))
\* the two statements under "Ogranichenie vesov i okruglenie", for one end
RoundAndClamp(v, mapping) == Clamp(RoundToIncrement(v, mapping), mapping)

IntensityBand_ElseHeavy(intensity) ==
    IF intensity = In_legkaya THEN [kind |-> "band", low |-> Pct50, high |-> Pct60]
    ELSE IF intensity = In_srednyaya THEN [kind |-> "band", low |-> Pct60, high |-> Pct70]
    ELSE [kind |-> "band", low |-> Pct70, high |-> Pct80]
IntensityBand_HeavyAsLight(intensity) ==
    IF intensity = In_legkaya THEN [kind |-> "band", low |-> Pct50, high |-> Pct60]
    ELSE IF intensity = In_srednyaya THEN [kind |-> "band", low |-> Pct60, high |-> Pct70]
    ELSE IF intensity = In_tyazhelaya THEN [kind |-> "band", low |-> Pct50, high |-> Pct60]
    ELSE None
\* the (low, high) percentages of the if/elif chain, None for its else branch
IntensityBand(intensity) ==
    IF intensity = In_legkaya THEN [kind |-> "band", low |-> Pct50, high |-> Pct60]
    ELSE IF intensity = In_srednyaya THEN [kind |-> "band", low |-> Pct60, high |-> Pct70]
    ELSE IF intensity = In_tyazhelaya THEN [kind |-> "band", low |-> Pct70, high |-> Pct80]
    ELSE None

\* the floats of a catalog entry
Floats(entry) ==
    [main_lift |-> entry.main_lift,
     scale |-> Literal(entry.scale[1], entry.scale[2]),
     min_weight |-> Literal(entry.min_weight[1], entry.min_weight[2]),
     max_weight |-> Literal(entry.max_weight[1], entry.max_weight[2]),
     increment |-> Literal(entry.increment[1], entry.increment[2])]

\* EXERCISE_MAPPING.get(exercise.lower(), {...})
Mapping_CaseSensitive(exercise) == Floats(DictGet(EXERCISE_MAPPING, exercise, DefaultMapping))
Mapping(exercise) == Floats(DictGet(EXERCISE_MAPPING, Lower(exercise), DefaultMapping))

\* the floats that are no finite number, and the test for the others
FloatNaN == [nan |-> TRUE]
FloatInf(sgn) == [inf |-> sgn]
IsFinite(x) == x # None /\ x # FloatNaN /\ x # FloatInf(1) /\ x # FloatInf(-1)

\* low_weight and high_weight of a base weight, rounded, clamped and formatted
WeightRange(base_weight, band, mapping) ==
    RangeText(RoundAndClamp(FMul(base_weight, band.low), mapping),
              RoundAndClamp(FMul(base_weight, band.high), mapping))

\* the body of the try block once exercise.lower() and intensity.lower() are done
Calculate(max_lift, band, mapping) ==
    IF band = None THEN UnknownIntensityText
    ELSE IF ~IsFinite(max_lift) THEN ErrorText
    ELSE WeightRange(FMul(max_lift, mapping.scale), band, mapping)

\* The try block: lower() of a value that is no str raises AttributeError, None
\* times a float raises TypeError, round() of nan or of an infinity raises
\* ValueError or OverflowError; each is caught by the except branch, which
\* returns the error text.  The unknown intensity is returned before anything
\* is rounded.
calculate_weight(max_lift, intensity, exercise) ==
    IF ~IsStr(exercise) \/ max_lift = None \/ ~IsStr(intensity) THEN ErrorText
    ELSE Calculate(max_lift, IntensityBand(Lower(intensity)), Mapping(exercise))

\* ------------------------------------------------------------ the schedule
\* pd.read_csv(CSV_DATA): one tuple per line of the text, the cells
\* <<exercise, intensity, day, week>> (the column of sets and repetitions is
\* only printed and is left out).  A line with fewer cells than the header
\* has NaN in the cells it lacks.
CSV_DATA == <<
    <<Ex_zhim_lyozha, In_srednyaya, Day_ponedelnik, 1>>,
    <<Ex_tyaga_vertikalnogo_bloka, In_srednyaya, Day_ponedelnik, 1>>,
    <<Ex_shragi_s_gantelyami, In_legkaya, Day_ponedelnik, 1>>,
    <<Ex_kosichka, In_srednyaya, Day_ponedelnik, 1>>,
    <<Ex_sgibaniya_na_bitseps_ez_grifa, In_srednyaya, Day_ponedelnik, 1>>,
    <<Ex_molotki, In_legkaya, Day_ponedelnik, 1>>,
    <<Ex_perednyaya_delta, In_legkaya, Day_ponedelnik, 1>>,
    <<Ex_sgibanie_na_predpleche, In_srednyaya, Day_ponedelnik, 1>>,
    <<Ex_prised_so_shtangoy, In_srednyaya, Day_sreda, 1>>,
    <<Ex_klassicheskaya_tyaga, In_srednyaya, Day_sreda, 1>>,
    <<Ex_razgibaniya_nog_v_trenazhere, In_legkaya, Day_sreda, 1>>,
    <<Ex_sgibaniya_nog_v_trenazhere, In_legkaya, Day_sreda, 1>>,
    <<Ex_mahi_na_srednyuyu_deltu, In_srednyaya, Day_sreda, 1>>,
    <<Ex_otvedeniya_na_delty, In_legkaya, Day_sreda, 1>>,
    <<Ex_razgibanie_na_predpleche, In_srednyaya, Day_sreda, 1>>,
    <<Ex_prised_so_shtangoy, In_legkaya, Day_pyatnitsa, 1>>,
    <<Ex_zhim_ganteley_lyozha_30deg, In_legkaya, Day_pyatnitsa, 1>>,
    <<Ex_tyaga_gorizontalnogo_bloka, In_srednyaya, Day_pyatnitsa, 1>>,
    <<Ex_podem_na_bitseps_s_pryamym_grifom, In_legkaya, Day_pyatnitsa, 1>>,
    <<Ex_podem_na_noski_v_smite, In_legkaya, Day_pyatnitsa, 1>>,
    <<Ex_sgibanie_na_predpleche, In_srednyaya, Day_pyatnitsa, 1>>,
    <<Ex_frantsuzskiy_zhim_lyozha, In_legkaya, Day_pyatnitsa, 1>>,
    <<Ex_razgibanie_na_predpleche, In_srednyaya, Day_pyatnitsa, 1>>,
    <<Ex_zhim_lyozha, In_tyazhelaya, Day_ponedelnik, 2>>,
    <<Ex_tyaga_vertikalnogo_bloka, In_tyazhelaya, Day_ponedelnik, 2>>,
    <<Ex_shragi_s_gantelyami, In_srednyaya, Day_ponedelnik, 2>>,
    <<Ex_kosichka, In_srednyaya, Day_ponedelnik, 2>>,
    <<Ex_sgibaniya_na_bitseps_ez_grifa, In_srednyaya, Day_ponedelnik, 2>>,
    <<Ex_molotki, In_srednyaya, Day_ponedelnik, 2>>,
    <<Ex_perednyaya_delta, In_legkaya, Day_ponedelnik, 2>>,
    <<Ex_sgibanie_na_predpleche, In_srednyaya, Day_ponedelnik, 2>>,
    <<Ex_prised_so_shtangoy, In_srednyaya, Day_sreda, 2>>,
    <<Ex_klassicheskaya_tyaga, In_tyazhelaya, Day_sreda, 2>>,
    <<Ex_razgibaniya_nog_v_trenazhere, In_tyazhelaya, Day_sreda, 2>>,
    <<Ex_sgibaniya_nog_v_trenazhere, In_srednyaya, Day_sreda, 2>>,
    <<Ex_mahi_na_srednyuyu_deltu, In_legkaya, Day_sreda, 2>>,
    <<Ex_otvedeniya_na_delty, In_tyazhelaya, Day_sreda, 2>>,
    <<Ex_razgibanie_na_predpleche, In_srednyaya, Day_sreda, 2>>,
    <<Ex_prised_so_shtangoy, In_legkaya, Day_pyatnitsa, 2>>,
    <<Ex_zhim_ganteley_lyozha_30deg, In_tyazhelaya, Day_pyatnitsa, 2>>,
    <<Ex_tyaga_gorizontalnogo_bloka, In_tyazhelaya, Day_pyatnitsa, 2>>,
    <<Ex_podem_na_bitseps_s_pryamym_grifom, In_srednyaya, Day_pyatnitsa, 2>>,
    <<Ex_podem_na_noski_v_smite, In_srednyaya, Day_pyatnitsa, 2>>,
    <<Ex_sgibanie_na_predpleche, In_srednyaya, Day_pyatnitsa, 2>>,
    <<Ex_frantsuzskiy_zhim_lyozha, In_legkaya, Day_pyatnitsa, 2>>,
    <<Ex_razgibanie_na_predpleche, In_srednyaya, Day_pyatnitsa, 2>>,
    <<Ex_zhim_lyozha, In_legkaya, Day_ponedelnik, 3>>,
    <<Ex_tyaga_vertikalnogo_bloka, In_legkaya, Day_ponedelnik, 3>>,
    <<Ex_shragi_s_gantelyami, In_tyazhelaya, Day_ponedelnik, 3>>,
    <<Ex_kosichka, In_tyazhelaya, Day_ponedelnik, 3>>,
    <<Ex_sgibaniya_na_bitseps_ez_grifa, In_tyazhelaya, Day_ponedelnik, 3>>,
    <<Ex_molotki, In_srednyaya, Day_ponedelnik, 3>>,
    <<Ex_perednyaya_delta, In_tyazhelaya, Day_ponedelnik, 3>>,
    <<Ex_sgibanie_na_predpleche, In_srednyaya, Day_ponedelnik, 3>>,
    <<Ex_prised_so_shtangoy, In_tyazhelaya, Day_sreda, 3>>,
    <<Ex_klassicheskaya_tyaga, In_srednyaya, Day_sreda, 3>>,
    <<Ex_razgibaniya_nog_v_trenazhere, In_srednyaya, Day_sreda, 3>>,
    <<Ex_sgibaniya_nog_v_trenazhere, In_tyazhelaya, Day_sreda, 3>>,
    <<Ex_mahi_na_srednyuyu_deltu, In_tyazhelaya, Day_sreda, 3>>,
    <<Ex_otvedeniya_na_delty, In_srednyaya, Day_sreda, 3>>,
    <<Ex_razgibanie_na_predpleche, In_srednyaya, Day_sreda, 3>>,
    <<Ex_prised_so_shtangoy, In_legkaya, Day_pyatnitsa, 3>>,
    <<Ex_zhim_ganteley_lyozha_30deg, In_tyazhelaya, Day_pyatnitsa, 3>>,
    <<Ex_tyaga_gorizontalnogo_bloka, In_tyazhelaya, Day_pyatnitsa, 3>>,
    <<Ex_podem_na_bitseps_s_pryamym_grifom, In_srednyaya, Day_pyatnitsa, 3>>,
    <<Ex_podem_na_noski_v_smite, In_srednyaya, Day_pyatnitsa, 3>>,
    <<Ex_sgibanie_na_predpleche, In_srednyaya, Day_pyatnitsa, 3>>,
    <<Ex_frantsuzskiy_zhim_lyozha, In_legkaya, Day_pyatnitsa, 3>>,
    <<Ex_razgibanie_na_predpleche, In_srednyaya, Day_pyatnitsa, 3>>,
    <<Ex_zhim_lyozha, In_srednyaya, Day_ponedelnik, 4>>,
    <<Ex_tyaga_vertikalnogo_bloka, In_srednyaya, Day_ponedelnik, 4>>,
    <<Ex_shragi_s_gantelyami, In_tyazhelaya, Day_ponedelnik, 4>>,
    <<Ex_kosichka, In_srednyaya, Day_ponedelnik, 4>>,
    <<Ex_sgibaniya_na_bitseps_ez_grifa, In_srednyaya, Day_ponedelnik, 4>>,
    <<Ex_molotki, In_tyazhelaya, Day_ponedelnik, 4>>,
    <<Ex_perednyaya_delta, In_tyazhelaya, Day_ponedelnik, 4>>,
    <<Ex_sgibanie_na_predpleche, In_srednyaya, Day_ponedelnik, 4>>,
    <<Ex_prised_so_shtangoy, In_srednyaya, Day_sreda, 4>>,
    <<Ex_klassicheskaya_tyaga, In_tyazhelaya, Day_sreda, 4>>,
    <<Ex_razgibaniya_nog_v_trenazhere, In_tyazhelaya, Day_sreda, 4>>,
    <<Ex_sgibaniya_nog_v_trenazhere, In_srednyaya, Day_sreda, 4>>,
    <<Ex_mahi_na_srednyuyu_deltu, In_srednyaya, Day_sreda, 4>>,
    <<Ex_otvedeniya_na_delty, In_tyazhelaya, Day_sreda, 4>>,
    <<Ex_razgibanie_na_predpleche, In_srednyaya, Day_sreda, 4>>,
    <<Ex_prised_so_shtangoy, In_legkaya, Day_pyatnitsa, 4>>,
    <<Ex_zhim_ganteley_lyozha_30deg, In_srednyaya, Day_pyatnitsa, 4>>,
    <<Ex_tyaga_gorizontalnogo_bloka, In_tyazhelaya, Day_pyatnitsa, 4>>,
    <<Ex_podem_na_bitseps_s_pryamym_grifom, In_srednyaya, Day_pyatnitsa, 4>>,
    <<Ex_podem_na_noski_v_smite, In_srednyaya, Day_pyatnitsa, 4>>,
    <<Ex_sgibanie_na_predpleche, In_srednyaya, Day_pyatnitsa, 4>>,
    <<Ex_frantsuzskiy_zhim_lyozha, In_legkaya, Day_pyatnitsa, 4>>,
    <<Ex_razgibanie_na_predpleche, In_srednyaya, Day_pyatnitsa, 4>>,
    <<Ex_zhim_lyozha, In_tyazhelaya, Day_ponedelnik, 5>>,
    <<Ex_tyaga_vertikalnogo_bloka, In_srednyaya, Day_ponedelnik, 5>>,
    <<Ex_shragi_s_gantelyami, In_tyazhelaya, Day_ponedelnik, 5>>,
    <<Ex_kosichka, In_srednyaya, Day_ponedelnik, 5>>,
    <<Ex_sgibaniya_na_bitseps_ez_grifa, In_tyazhelaya, Day_ponedelnik, 5>>,
    <<Ex_molotki, In_srednyaya, Day_ponedelnik, 5>>,
    <<Ex_perednyaya_delta, In_tyazhelaya, Day_ponedelnik, 5>>,
    <<Ex_s_medicale>>,
    <<Ex_prised_so_shtangoy, In_tyazhelaya, Day_sreda, 5>>,
    <<Ex_klassicheskaya_tyaga, In_srednyaya, Day_sreda, 5>>,
    <<Ex_razgibaniya_nog_v_trenazhere, In_srednyaya, Day_sreda, 5>>,
    <<Ex_sgibaniya_nog_v_trenazhere, In_tyazhelaya, Day_sreda, 5>>,
    <<Ex_mahi_na_srednyuyu_deltu, In_srednyaya, Day_sreda, 5>>,
    <<Ex_otvedeniya_na_delty, In_tyazhelaya, Day_sreda, 5>>,
    <<Ex_razgibanie_na_predpleche, In_srednyaya, Day_sreda, 5>>,
    <<Ex_prised_so_shtangoy, In_legkaya, Day_pyatnitsa, 5>>,
    <<Ex_zhim_ganteley_lyozha_30deg, In_srednyaya, Day_pyatnitsa, 5>>,
    <<Ex_tyaga_gorizontalnogo_bloka, In_srednyaya, Day_pyatnitsa, 5>>,
    <<Ex_podem_na_bitseps_s_pryamym_grifom, In_tyazhelaya, Day_pyatnitsa, 5>>,
    <<Ex_podem_na_noski_v_smite, In_srednyaya, Day_pyatnitsa, 5>>,
    <<Ex_sgibanie_na_predpleche, In_srednyaya, Day_pyatnitsa, 5>>,
    <<Ex_frantsuzskiy_zhim_lyozha, In_legkaya, Day_pyatnitsa, 5>>,
    <<Ex_razgibanie_na_predpleche, In_srednyaya, Day_pyatnitsa, 5>>,
    <<Ex_zhim_lyozha, In_srednyaya, Day_ponedelnik, 6>>,
    <<Ex_tyaga_vertikalnogo_bloka, In_tyazhelaya, Day_ponedelnik, 6>>,
    <<Ex_shragi_s_gantelyami, In_srednyaya, Day_ponedelnik, 6>>,
    <<Ex_kosichka, In_tyazhelaya, Day_ponedelnik, 6>>,
    <<Ex_sgibaniya_na_bitseps_ez_grifa, In_srednyaya, Day_ponedelnik, 6>>,
    <<Ex_molotki, In_tyazhelaya, Day_ponedelnik, 6>>,
    <<Ex_perednyaya_delta, In_srednyaya, Day_ponedelnik, 6>>,
    <<Ex_sgibanie_na_predpleche, In_tyazhelaya, Day_ponedelnik, 6>>,
    <<Ex_prised_so_shtangoy, In_srednyaya, Day_sreda, 6>>,
    <<Ex_klassicheskaya_tyaga, In_srednyaya, Day_sreda, 6>>,
    <<Ex_razgibaniya_nog_v_trenazhere, In_srednyaya, Day_sreda, 6>>,
    <<Ex_sgibaniya_nog_v_trenazhere, In_srednyaya, Day_sreda, 6>>,
    <<Ex_mahi_na_srednyuyu_deltu, In_tyazhelaya, Day_sreda, 6>>,
    <<Ex_otvedeniya_na_delty, In_tyazhelaya, Day_sreda, 6>>,
    <<Ex_razgibanie_na_predpleche, In_tyazhelaya, Day_sreda, 6>>,
    <<Ex_prised_so_shtangoy, In_legkaya, Day_pyatnitsa, 6>>,
    <<Ex_zhim_ganteley_lyozha_30deg, In_srednyaya, Day_pyatnitsa, 6>>,
    <<Ex_tyaga_gorizontalnogo_bloka, In_srednyaya, Day_pyatnitsa, 6>>,
    <<Ex_podem_na_bitseps_s_pryamym_grifom, In_tyazhelaya, Day_pyatnitsa, 6>>,
    <<Ex_podem_na_noski_v_smite, In_srednyaya, Day_pyatnitsa, 6>>,
    <<Ex_sgibanie_na_predpleche, In_tyazhelaya, Day_pyatnitsa, 6>>,
    <<Ex_frantsuzskiy_zhim_lyozha, In_legkaya, Day_pyatnitsa, 6>>,
    <<Ex_razgibanie_na_predpleche, In_srednyaya, Day_pyatnitsa, 6>>,
    <<Ex_zhim_lyozha, In_tyazhelaya, Day_ponedelnik, 7>>,
    <<Ex_tyaga_vertikalnogo_bloka, In_tyazhelaya, Day_ponedelnik, 7>>,
    <<Ex_shragi_s_gantelyami, In_srednyaya, Day_ponedelnik, 7>>,
    <<Ex_kosichka, In_srednyaya, Day_ponedelnik, 7>>,
    <<Ex_sgibaniya_na_bitseps_ez_grifa, In_srednyaya, Day_ponedelnik, 7>>,
    <<Ex_molotki, In_tyazhelaya, Day_ponedelnik, 7>>,
    <<Ex_perednyaya_delta, In_srednyaya, Day_ponedelnik, 7>>,
    <<Ex_sgibanie_na_predpleche, In_srednyaya, Day_ponedelnik, 7>>,
    <<Ex_prised_so_shtangoy, In_srednyaya, Day_sreda, 7>>,
    <<Ex_klassicheskaya_tyaga, In_srednyaya, Day_sreda, 7>>,
    <<Ex_razgibaniya_nog_v_trenazhere, In_tyazhelaya, Day_sreda, 7>>,
    <<Ex_sgibaniya_nog_v_trenazhere, In_tyazhelaya, Day_sreda, 7>>,
    <<Ex_mahi_na_srednyuyu_deltu, In_srednyaya, Day_sreda, 7>>,
    <<Ex_otvedeniya_na_delty, In_tyazhelaya, Day_sreda, 7>>,
    <<Ex_razgibanie_na_predpleche, In_tyazhelaya, Day_sreda, 7>>,
    <<Ex_prised_so_shtangoy, In_legkaya, Day_pyatnitsa, 7>>,
    <<Ex_zhim_ganteley_lyozha_30deg, In_srednyaya, Day_pyatnitsa, 7>>,
    <<Ex_tyaga_gorizontalnogo_bloka, In_srednyaya, Day_pyatnitsa, 7>>,
    <<Ex_podem_na_bitseps_s_pryamym_grifom, In_tyazhelaya, Day_pyatnitsa, 7>>,
    <<Ex_podem_na_noski_v_smite, In_tyazhelaya, Day_pyatnitsa, 7>>,
    <<Ex_sgibanie_na_predpleche, In_tyazhelaya, Day_pyatnitsa, 7>>,
    <<Ex_frantsuzskiy_zhim_lyozha, In_legkaya, Day_pyatnitsa, 7>>,
    <<Ex_razgibanie_na_predpleche, In_srednyaya, Day_pyatnitsa, 7>>,
    <<Ex_zhim_lyozha, In_srednyaya, Day_ponedelnik, 8>>,
    <<Ex_tyaga_vertikalnogo_bloka, In_tyazhelaya, Day_ponedelnik, 8>>,
    <<Ex_shragi_s_gantelyami, In_srednyaya, Day_ponedelnik, 8>>,
    <<Ex_kosichka, In_tyazhelaya, Day_ponedelnik, 8>>,
    <<Ex_sgibaniya_na_bitseps_ez_grifa, In_tyazhelaya, Day_ponedelnik, 8>>,
    <<Ex_molotki, In_srednyaya, Day_ponedelnik, 8>>,
    <<Ex_perednyaya_delta, In_srednyaya, Day_ponedelnik, 8>>,
    <<Ex_sgibanie_na_predpleche, In_srednyaya, Day_ponedelnik, 8>>,
    <<Ex_prised_so_shtangoy, In_srednyaya, Day_sreda, 8>>,
    <<Ex_klassicheskaya_tyaga, In_srednyaya, Day_sreda, 8>>,
    <<Ex_razgibaniya_nog_v_trenazhere, In_srednyaya, Day_sreda, 8>>,
    <<Ex_sgibaniya_nog_v_trenazhere, In_srednyaya, Day_sreda, 8>>,
    <<Ex_mahi_na_srednyuyu_deltu, In_tyazhelaya, Day_sreda, 8>>,
    <<Ex_otvedeniya_na_delty, In_tyazhelaya, Day_sreda, 8>>,
    <<Ex_razgibanie_na_predpleche, In_tyazhelaya, Day_sreda, 8>>,
    <<Ex_prised_so_shtangoy, In_legkaya, Day_pyatnitsa, 8>>,
    <<Ex_zhim_ganteley_lyozha_30deg, In_tyazhelaya, Day_pyatnitsa, 8>>,
    <<Ex_tyaga_gorizontalnogo_bloka, In_srednyaya, Day_pyatnitsa, 8>>,
    <<Ex_podem_na_bitseps_s_pryamym_grifom, In_tyazhelaya, Day_pyatnitsa, 8>>,
    <<Ex_podem_na_noski_v_smite, In_srednyaya, Day_pyatnitsa, 8>>,
    <<Ex_sgibanie_na_predpleche, In_tyazhelaya, Day_pyatnitsa, 8>>,
    <<Ex_frantsuzskiy_zhim_lyozha, In_legkaya, Day_pyatnitsa, 8>>,
    <<Ex_razgibanie_na_predpleche, In_srednyaya, Day_pyatnitsa, 8>>
>>

\* ------------------------------------------------------------ more strings
\* str.upper() on one code point, the inverse of LowerChar
UpperChar(c) ==
    IF c >= 97 /\ c <= 122 THEN c - 32
    ELSE IF c >= 1072 /\ c <= 1103 THEN c - 32
    ELSE IF c >= 1104 /\ c <= 1119 THEN c - 80
    ELSE c

\* str.capitalize(): the first character upper case, the rest lower case
Capitalize(s) == [i \in DOMAIN s |-> IF i = 1 THEN UpperChar(s[i]) ELSE LowerChar(s[i])]

\* the characters str.strip() and str.split() take for white space
Spaces == {9, 10, 11, 12, 13, 32}

RECURSIVE LStrip(_)
LStrip(s) == IF s # <<>> /\ Head(s) \in Spaces THEN LStrip(Tail(s)) ELSE s
RECURSIVE RStrip(_)
RStrip(s) ==
    IF s # <<>> /\ s[Len(s)] \in Spaces THEN RStrip(SubSeq(s, 1, Len(s) - 1)) ELSE s
Strip(s) == RStrip(LStrip(s))

\* the first position from i on where s has a character of chars, Len(s) + 1
\* when there is none
RECURSIVE FindFrom(_, _, _)
FindFrom(s, i, chars) ==
    IF i > Len(s) \/ s[i] \in chars THEN i ELSE FindFrom(s, i + 1, chars)

\* text.split(maxsplit=1)[0]: the first word of the text
FirstToken(text) ==
    LET t == LStrip(text)
    IN SubSeq(t, 1, FindFrom(t, 1, Spaces) - 1)

\* the texts of the commands
Cmd_start == <<47, 115, 116, 97, 114, 116>>
Cmd_cancel == <<47, 99, 97, 110, 99, 101, 108>>
Cmd_my_weights == <<47, 109, 121, 95, 119, 101, 105, 103, 104, 116, 115>>
Cmd_reset == <<47, 114, 101, 115, 101, 116>>
Cmd_workout == <<47, 119, 111, 114, 107, 111, 117, 116>>
Cmd_week == <<47, 119, 101, 101, 107>>
Cmd_help == <<47, 104, 101, 108, 112>>
\* "week_", the prefix of the callback data of the week buttons
Txt_week_ == <<119, 101, 101, 107, 95>>
\* "nan", a text float() takes for a number
Txt_nan == <<110, 97, 110>>

\* --------------------------------------------------------- float(text), int
\* the ValueError float() and int() raise
ValueError == [kind |-> "ValueError"]

RECURSIVE DigitsValue(_)
DigitsValue(s) ==
    IF s = <<>> THEN 0 ELSE DigitsValue(SubSeq(s, 1, Len(s) - 1)) * 10 + (s[Len(s)] - 48)
\* every character is one of "0" .. "9"
AllDigits(s) == \A i \in DOMAIN s : s[i] >= 48 /\ s[i] <= 57
RECURSIVE Pow10(_)
Pow10(k) == IF k = 0 THEN 1 ELSE 10 * Pow10(k - 1)

\* float(text) for the texts of this grammar: white space around, a sign,
\* then "nan", "inf", "infinity" in any case or digits with an optional point
\* (at least one digit).  Every other text of the inputs raises ValueError;
\* the inputs hold no text with an exponent or with underscores.
ParseDigits(sgn, int_part, frac_part) ==
    IF AllDigits(int_part) /\ AllDigits(frac_part) /\ Len(int_part) + Len(frac_part) >= 1
    THEN Literal(sgn * DigitsValue(int_part \o frac_part), Pow10(Len(frac_part)))
    ELSE ValueError
\* the text below the sign; "inf" and "infinity" are written out
ParseUnsigned(sgn, body) ==
    LET dot == FindFrom(body, 1, {46})
    IN IF Lower(body) = Txt_nan THEN FloatNaN
       ELSE IF Lower(body) \in {<<105, 110, 102>>, <<105, 110, 102, 105, 110, 105, 116, 121>>}
            THEN FloatInf(sgn)
       ELSE ParseDigits(sgn, SubSeq(body, 1, dot - 1), SubSeq(body, dot + 1, Len(body)))
ParseFloat(text) ==
    LET t == Strip(text)
    IN IF t # <<>> /\ t[1] \in {43, 45} THEN ParseUnsigned(IF t[1] = 45 THEN -1 ELSE 1, Tail(t))
       ELSE ParseUnsigned(1, t)

\* int(text) for a text of digits with an optional sign and white space
\* around: IsIntText when int() returns, and then ParseInt is what it returns;
\* every other text of the inputs raises ValueError
SignedBody(text) ==
    LET t == Strip(text)
    IN IF t # <<>> /\ t[1] \in {43, 45} THEN Tail(t) ELSE t
IsIntText(text) == SignedBody(text) # <<>> /\ AllDigits(SignedBody(text))
ParseInt(text) ==
    LET t == Strip(text)
    IN IF t[1] = 45 THEN -DigitsValue(SignedBody(text)) ELSE DigitsValue(SignedBody(text))

\* x < y of Python for floats that may be nan or infinite (x > y is y < x)
FloatLess(x, y) ==
    IF x = FloatNaN \/ y = FloatNaN THEN FALSE
    ELSE IF x = FloatInf(-1) THEN y # FloatInf(-1)
    ELSE IF x = FloatInf(1) \/ y = FloatInf(-1) THEN FALSE
    ELSE IF y = FloatInf(1) THEN TRUE
    ELSE FCmp(x, y) < 0

\* --------------------------------------------------------- validate_weight
\* (is_valid, weight, error_msg); the three error messages by name
CheckWeight(weight) ==
    IF weight = ValueError
    THEN [is_valid |-> FALSE, weight |-> FZero, error_msg |-> "not_a_number"]
    ELSE IF FloatLess(weight, FZero)
    THEN [is_valid |-> FALSE, weight |-> FZero, error_msg |-> "negative"]
    ELSE IF FloatLess(IntToFloat(1000), weight)
    THEN [is_valid |-> FALSE, weight |-> FZero, error_msg |-> "too_big"]
    ELSE [is_valid |-> TRUE, weight |-> weight, error_msg |-> ""]
validate_weight(text) == CheckWeight(ParseFloat(text))
\* ------------------------------------------------------------------ bounds
\* The arguments of the engine runs: max_lift is the float of the decimal
\* numeral of k * LiftStep tenths of a kilogram, k in -NegLiftSteps .. MaxLiftSteps.
LiftStep == 100
MaxLiftSteps == 100
NegLiftSteps == 2

LiftTenths == {k * LiftStep : k \in (-NegLiftSteps)..MaxLiftSteps}
Intensities == {In_legkaya, In_srednyaya, In_tyazhelaya, In_tyazhyolaya, In_Srednyaya,
                Txt_propustit, In_empty, NaN}
Exercises == DOMAIN EXERCISE_MAPPING \cup {Ex_Zhim_Lyozha, Ex_bogus_exercise_1, Ex_bogus_exercise_2}

\* light < medium < heavy, the order of the bands
NextIntensity(i) == IF i = In_legkaya THEN In_srednyaya ELSE In_tyazhelaya

\* the users of the bot, and the one whose conversation is followed
Users == {1, 2}
Senders == {1}
\* the largest number after "week_" in the callback data of the runs
MaxCallbackWeek == 9

\* the messages of the runs: the commands; the texts "100", "0", "nan",
\* "-5", "1001" and "abc"; the skip word, and the skip word capitalised
Texts ==
    {Cmd_start, Cmd_cancel, Cmd_my_weights, Cmd_reset, Cmd_workout, Cmd_week, Cmd_help}
    \cup {<<49, 48, 48>>, <<48>>, Txt_nan, <<45, 53>>, <<49, 48, 48, 49>>, <<97, 98, 99>>}
    \cup {Txt_propustit, <<1055, 1088, 1086, 1087, 1091, 1089, 1090, 1080, 1090, 1100>>}
\* the callback data of the runs: "week_0" .. "week_9" and "week_abc"
CallbackData ==
    {Txt_week_ \o <<48 + n>> : n \in 0..MaxCallbackWeek} \cup {Txt_week_ \o <<97, 98, 99>>}

\* --------------------------------------------------------------- the state
\* arg_max_lift, arg_intensity, arg_exercise: the arguments of the last
\* invocation of calculate_weight, and lift10, the decimal numeral of the first
\* in tenths (arg_max_lift is the float of the numeral lift10 / 10); result:
\* what it returned, None before the first one; prev: the arguments and the
\* result of the invocation before it, None when there is none.
\* fsm_state, fsm_data: the state and the dict the FSM storage holds for each
\* user; db: the row of table users of each user, or NoRow; outbox: the
\* messages the last handler has sent, until they are delivered.
VARIABLES lift10, arg_max_lift, arg_intensity, arg_exercise, result, prev,
          fsm_state, fsm_data, db, outbox

engine_vars == <<lift10, arg_max_lift, arg_intensity, arg_exercise, result, prev>>
bot_vars == <<fsm_state, fsm_data, db, outbox>>
vars == <<lift10, arg_max_lift, arg_intensity, arg_exercise, result, prev, fsm_state, fsm_data, db, outbox>>

\* ------------------------------------------------------------- the storage
\* the keys of the dicts of maxima
Lifts == {"bench_press", "squat", "deadlift"}
\* no row of table users for a user_id
NoRow == [kind |-> "NoRow"]
\* a REAL column: sqlite3 stores the float nan as NULL, which is read as None
SqlReal(x) == IF x = FloatNaN THEN None ELSE x

save_user_data_SquatAsDeadlift(user_id, data) ==
    db' = [db EXCEPT ![user_id] =
              [bench_press |-> SqlReal(DictGet(data, "bench_press", FZero)),
               squat |-> SqlReal(DictGet(data, "deadlift", FZero)),
               deadlift |-> SqlReal(DictGet(data, "squat", FZero))]]

\* INSERT OR REPLACE of the row of user_id, a key the dict lacks stored as 0.0
save_user_data(user_id, data) ==
    db' = [db EXCEPT ![user_id] =
              [bench_press |-> SqlReal(DictGet(data, "bench_press", FZero)),
               squat |-> SqlReal(DictGet(data, "squat", FZero)),
               deadlift |-> SqlReal(DictGet(data, "deadlift", FZero))]]

\* a SELECT without the WHERE clause: some row of the table
load_user_data_AnyRow(user_id) ==
    IF \E u \in Users : db[u] # NoRow THEN db[CHOOSE u \in Users : db[u] # NoRow]
    ELSE [bench_press |-> FZero, squat |-> FZero, deadlift |-> FZero]

\* the row of user_id as a dict, three times 0.0 when there is none
load_user_data(user_id) ==
    IF db[user_id] # NoRow THEN db[user_id]
    ELSE [bench_press |-> FZero, squat |-> FZero, deadlift |-> FZero]

\* DELETE of the row of user_id
clear_user_data(user_id) == db' = [db EXCEPT ![user_id] = NoRow]

\* ---------------------------------------------------- the FSM of aiogram
\* state.get_state() is None or one of the states of MaxLiftForm
StateNone == "None"
\* the empty dict
EmptyDict == [k \in {} |-> FZero]
\* state.update_data(**kwargs) on the dict data
update_data(data, kwargs) == kwargs @@ data

\* ------------------------------------------------------ format_workout_plan
\* an exception leaving a function
Raised == [kind |-> "raised"]
\* "Vvedite maksimalnye vesa (/reset)"
PlaceholderText == [kind |-> "placeholder"]

\* a cell of a row of the DataFrame
Cell(row, i) == IF i <= Len(row) THEN row[i] ELSE NaN
\* week_df[week_df[day column] == day]: NaN equals nothing
DayRows(rows, day) == SelectSeq(rows, LAMBDA row : Cell(row, 3) = day)

\* max_lift > 0, a TypeError when max_lift is None
PlanWeight_ZeroComputed(max_lift, intensity, exercise) ==
    IF max_lift = None THEN Raised
    ELSE IF FCmp(max_lift, FZero) >= 0 THEN calculate_weight(max_lift, intensity, exercise)
    ELSE PlaceholderText
\* calculate_weight(...) if max_lift > 0 else the placeholder
PlanWeight(max_lift, intensity, exercise) ==
    IF max_lift = None THEN Raised
    ELSE IF FCmp(max_lift, FZero) > 0 THEN calculate_weight(max_lift, intensity, exercise)
    ELSE PlaceholderText

\* mapping, main_lift, max_lift and weight of a row whose exercise is a str
RowWeight(row, max_weights) ==
    PlanWeight(DictGet(max_weights,
                       DictGet(EXERCISE_MAPPING, Lower(Cell(row, 1)),
                               [main_lift |-> "bench_press", scale |-> <<30, 100>>]).main_lift,
                       FZero),
               Cell(row, 2), Cell(row, 1))

\* the line "- exercise: Intensity (reps, weight)", given by its parts
RowLine(row, weight) ==
    IF weight = Raised \/ ~IsStr(Cell(row, 2)) THEN Raised
    ELSE [day |-> Capitalize(Cell(row, 3)), exercise |-> Cell(row, 1),
          intensity |-> Capitalize(Cell(row, 2)), weight |-> weight]

\* the line of one row; lower() and capitalize() raise AttributeError on a
\* cell that is NaN
PlanLine(row, max_weights) ==
    IF ~IsStr(Cell(row, 1)) THEN Raised ELSE RowLine(row, RowWeight(row, max_weights))

\* for _, row in day_df.iterrows(): the lines of the rows, in their order
PlanLines(rows, max_weights) == [i \in 1..Len(rows) |-> PlanLine(rows[i], max_weights)]

\* days = [...]: the three days in the order of the plan
Days == <<Day_ponedelnik, Day_sreda, Day_pyatnitsa>>

\* week_df: df[df[week column] == week], or all rows for no week
WeekFrame(df, week) ==
    IF week # <<>> /\ week[1] # 0
    THEN SelectSeq(df, LAMBDA row : Len(row) >= 4 /\ row[4] = week[1])
    ELSE df

\* the text of the lines, or the exception one of them raised
PlanText(week, lines) ==
    IF \E i \in DOMAIN lines : lines[i] = Raised THEN Raised
    ELSE [kind |-> "plan", week |-> IF week = <<>> THEN 0 ELSE week[1], lines |-> lines]

\* the part of format_workout_plan below week_df: the lines of the rows of
\* the three days, day after day
PlanOf(week, week_df, max_weights) ==
    IF week_df = <<>> THEN [kind |-> "week_not_found", week |-> week]
    ELSE PlanText(week, PlanLines(DayRows(week_df, Days[1]) \o DayRows(week_df, Days[2])
                                  \o DayRows(week_df, Days[3]), max_weights))

\* week is <<>> for None and <<n>> for the int n.  The returned text is given
\* by its parts: the week of the title (0 for none) and the lines.
format_workout_plan(week, user_id) ==
    IF week # <<>> /\ ~(1 <= week[1] /\ week[1] <= 8) THEN [kind |-> "week_out_of_range"]
    ELSE PlanOf(week, WeekFrame(CSV_DATA, week),
                [bench_press |-> DictGet(load_user_data(user_id), "bench_press", FZero),
                 squat |-> DictGet(load_user_data(user_id), "squat", FZero),
                 deadlift |-> DictGet(load_user_data(user_id), "deadlift", FZero)])

\* ------------------------------------------------------------- the handlers
\* Command(name): the first word of the text is "/" and the name
IsCommand(text, cmd) == FirstToken(text) = cmd

\* The first handler, in the order of registration, whose filter the message
\* of user_id passes; "none" when no filter does.
HandlerOf(user_id, text) ==
    IF IsCommand(text, Cmd_start) THEN "start_command"
    ELSE IF IsCommand(text, Cmd_cancel) THEN "cancel_command"
    ELSE IF fsm_state[user_id] = "MaxLiftForm:bench_press" THEN "process_bench_press"
    ELSE IF fsm_state[user_id] = "MaxLiftForm:squat" THEN "process_squat"
    ELSE IF fsm_state[user_id] = "MaxLiftForm:deadlift" THEN "process_deadlift"
    ELSE IF IsCommand(text, Cmd_my_weights) THEN "my_weights_command"
    ELSE IF IsCommand(text, Cmd_reset) THEN "reset_command"
    ELSE IF IsCommand(text, Cmd_workout) THEN "workout_command"
    ELSE IF IsCommand(text, Cmd_week) THEN "week_command"
    ELSE IF IsCommand(text, Cmd_help) THEN "help_command"
    ELSE "none"

\* an update is handled when the replies to the one before it are delivered
Handles(user_id, text, handler) == outbox = <<>> /\ HandlerOf(user_id, text) = handler

\* message.answer(...) of one text, given by its kind
Answer(user_id, kind) == [chat |-> user_id, body |-> [kind |-> kind]]
\* state.clear(), state.set_state(s)
SetFsm(user_id, s, data) ==
    /\ fsm_state' = [fsm_state EXCEPT ![user_id] = s]
    /\ fsm_data' = [fsm_data EXCEPT ![user_id] = data]

start_command_KeepsData(user_id, text) ==
    /\ Handles(user_id, text, "start_command")
    /\ SetFsm(user_id, "MaxLiftForm:bench_press", fsm_data[user_id])
    /\ outbox' = <<Answer(user_id, "greeting"), Answer(user_id, "ask_bench_press")>>
    /\ UNCHANGED <<db, engine_vars>>
start_command(user_id, text) ==
    /\ Handles(user_id, text, "start_command")
    /\ SetFsm(user_id, "MaxLiftForm:bench_press", EmptyDict)
    /\ outbox' = <<Answer(user_id, "greeting"), Answer(user_id, "ask_bench_press")>>
    /\ UNCHANGED <<db, engine_vars>>

cancel_command_ClearsStore(user_id, text) ==
    /\ Handles(user_id, text, "cancel_command")
    /\ IF fsm_state[user_id] = StateNone
       THEN /\ outbox' = <<Answer(user_id, "no_active_entry")>>
            /\ UNCHANGED <<fsm_state, fsm_data, db>>
       ELSE /\ SetFsm(user_id, StateNone, EmptyDict)
            /\ clear_user_data(user_id)
            /\ outbox' = <<Answer(user_id, "entry_cancelled")>>
    /\ UNCHANGED engine_vars
cancel_command(user_id, text) ==
    /\ Handles(user_id, text, "cancel_command")
    /\ IF fsm_state[user_id] = StateNone
       THEN /\ outbox' = <<Answer(user_id, "no_active_entry")>>
            /\ UNCHANGED <<fsm_state, fsm_data>>
       ELSE /\ SetFsm(user_id, StateNone, EmptyDict)
            /\ outbox' = <<Answer(user_id, "entry_cancelled")>>
    /\ UNCHANGED <<db, engine_vars>>

\* the three answers that show the weights of user_data
WeightsAnswer(user_id, kind, user_data) ==
    [chat |-> user_id,
     body |-> [kind |-> kind,
               bench_press |-> DictGet(user_data, "bench_press", FZero),
               squat |-> DictGet(user_data, "squat", FZero),
               deadlift |-> DictGet(user_data, "deadlift", FZero)]]

\* the branch of the skip word: update_data, get_data, save_user_data, clear
SkipEntry(user_id, kwargs) ==
    LET user_data == update_data(fsm_data[user_id], kwargs)
    IN /\ save_user_data(user_id, user_data)
       /\ SetFsm(user_id, StateNone, EmptyDict)

\* a rejection that also ends the session
RejectEntry_EndsSession(user_id, error_msg) ==
    /\ outbox' = <<[chat |-> user_id, body |-> [kind |-> "invalid", error_msg |-> error_msg]]>>
    /\ SetFsm(user_id, StateNone, EmptyDict)
    /\ UNCHANGED db

\* the branch of a text validate_weight rejects
RejectEntry(user_id, error_msg) ==
    /\ outbox' = <<[chat |-> user_id, body |-> [kind |-> "invalid", error_msg |-> error_msg]]>>
    /\ UNCHANGED <<fsm_state, fsm_data, db>>

process_bench_press(user_id, text) ==
    /\ Handles(user_id, text, "process_bench_press")
    /\ IF Lower(text) = Txt_propustit
       THEN /\ SkipEntry(user_id, [bench_press |-> FZero, squat |-> FZero, deadlift |-> FZero])
            /\ outbox' = <<Answer(user_id, "skipped_plan_without_weights")>>
       ELSE \E v \in {validate_weight(text)} :
               IF ~v.is_valid THEN RejectEntry(user_id, v.error_msg)
               ELSE /\ SetFsm(user_id, "MaxLiftForm:squat",
                              update_data(fsm_data[user_id], [bench_press |-> v.weight]))
                    /\ outbox' = <<Answer(user_id, "ask_squat")>>
                    /\ UNCHANGED db
    /\ UNCHANGED engine_vars

process_squat(user_id, text) ==
    /\ Handles(user_id, text, "process_squat")
    /\ IF Lower(text) = Txt_propustit
       THEN /\ SkipEntry(user_id, [squat |-> FZero, deadlift |-> FZero])
            /\ outbox' = <<Answer(user_id, "skipped_plan_without_weights")>>
       ELSE \E v \in {validate_weight(text)} :
               IF ~v.is_valid THEN RejectEntry(user_id, v.error_msg)
               ELSE /\ SetFsm(user_id, "MaxLiftForm:deadlift",
                              update_data(fsm_data[user_id], [squat |-> v.weight]))
                    /\ outbox' = <<Answer(user_id, "ask_deadlift")>>
                    /\ UNCHANGED db
    /\ UNCHANGED engine_vars

\* After a valid text the answer reads user_data['bench_press'] and
\* user_data['squat']: a KeyError when the dict lacks one, raised after the
\* save and the clear and answered by the except branch.
process_deadlift(user_id, text) ==
    /\ Handles(user_id, text, "process_deadlift")
    /\ IF Lower(text) = Txt_propustit
       THEN /\ SkipEntry(user_id, [deadlift |-> FZero])
            /\ outbox' = <<WeightsAnswer(user_id, "entry_finished",
                                         update_data(fsm_data[user_id], [deadlift |-> FZero]))>>
       ELSE \E v \in {validate_weight(text)} :
            \E user_data \in {update_data(fsm_data[user_id], [deadlift |-> v.weight])} :
               IF ~v.is_valid THEN RejectEntry(user_id, v.error_msg)
               ELSE /\ save_user_data(user_id, user_data)
                    /\ SetFsm(user_id, StateNone, EmptyDict)
                    /\ outbox' = IF Lifts \subseteq DOMAIN user_data
                                 THEN <<WeightsAnswer(user_id, "data_saved", user_data)>>
                                 ELSE <<Answer(user_id, "error")>>
    /\ UNCHANGED engine_vars

my_weights_command(user_id, text) ==
    /\ Handles(user_id, text, "my_weights_command")
    /\ LET user_data == load_user_data(user_id)
       IN outbox' = IF \A k \in DOMAIN user_data : user_data[k] = FZero
                    THEN <<Answer(user_id, "no_weights_yet")>>
                    ELSE <<WeightsAnswer(user_id, "current_weights", user_data)>>
    /\ UNCHANGED <<fsm_state, fsm_data, db, engine_vars>>

reset_command(user_id, text) ==
    /\ Handles(user_id, text, "reset_command")
    /\ clear_user_data(user_id)
    /\ SetFsm(user_id, "MaxLiftForm:bench_press", EmptyDict)
    /\ outbox' = <<Answer(user_id, "weights_reset_ask_bench_press")>>
    /\ UNCHANGED engine_vars

\* the answer with a plan, or the answer of the except branch when
\* format_workout_plan raised
PlanAnswer(user_id, workout_plan) ==
    IF workout_plan = Raised THEN Answer(user_id, "error")
    ELSE [chat |-> user_id, body |-> workout_plan]

\* The plan is sent whole or in pieces of 4096 characters; the pieces, put
\* together, are the plan, and are given as one message.
workout_command(user_id, text) ==
    /\ Handles(user_id, text, "workout_command")
    /\ outbox' = <<PlanAnswer(user_id, format_workout_plan(<<>>, user_id))>>
    /\ UNCHANGED <<fsm_state, fsm_data, db, engine_vars>>

week_command(user_id, text) ==
    /\ Handles(user_id, text, "week_command")
    /\ outbox' = <<Answer(user_id, "choose_week")>>
    /\ UNCHANGED <<fsm_state, fsm_data, db, engine_vars>>

\* callback.data.split('_')[1]: what stands between the first and the second
\* underscore
SecondField(data) ==
    LET first == FindFrom(data, 1, {95})
        second == FindFrom(data, first + 1, {95})
    IN SubSeq(data, first + 1, second - 1)

\* c.data.startswith('week_')
StartsWithWeek(data) == Len(data) >= Len(Txt_week_) /\ SubSeq(data, 1, Len(Txt_week_)) = Txt_week_

process_week_callback(user_id, data) ==
    /\ outbox = <<>>
    /\ StartsWithWeek(data)
    /\ outbox' = IF ~IsIntText(SecondField(data))
                 THEN <<Answer(user_id, "bad_week_number")>>
                 ELSE LET week_number == ParseInt(SecondField(data))
                      IN <<PlanAnswer(user_id, format_workout_plan(<<week_number>>, user_id))>>
    /\ UNCHANGED <<fsm_state, fsm_data, db, engine_vars>>

help_command(user_id, text) ==
    /\ Handles(user_id, text, "help_command")
    /\ outbox' = <<Answer(user_id, "help")>>
    /\ UNCHANGED <<fsm_state, fsm_data, db, engine_vars>>

\* the transport delivers the answers of the last handler
Deliver ==
    /\ outbox # <<>>
    /\ outbox' = <<>>
    /\ UNCHANGED <<fsm_state, fsm_data, db, engine_vars>>

\* init_db() on an empty database, an empty FSM storage, nothing sent
BotIdle ==
    /\ fsm_state = [u \in Users |-> StateNone]
    /\ fsm_data = [u \in Users |-> EmptyDict]
    /\ db = [u \in Users |-> NoRow]
    /\ outbox = <<>>

\* no invocation of the engine on its own
EngineIdle ==
    /\ lift10 = 0
    /\ arg_max_lift = FZero
    /\ arg_intensity = In_empty
    /\ arg_exercise = In_empty
    /\ result = None
    /\ prev = None

Init == BotIdle /\ EngineIdle

Next ==
    \/ \E user_id \in Senders, text \in Texts :
          \/ start_command(user_id, text)
          \/ cancel_command(user_id, text)
          \/ process_bench_press(user_id, text)
          \/ process_squat(user_id, text)
          \/ process_deadlift(user_id, text)
          \/ my_weights_command(user_id, text)
          \/ reset_command(user_id, text)
          \/ workout_command(user_id, text)
          \/ week_command(user_id, text)
          \/ help_command(user_id, text)
    \/ \E user_id \in Senders, data \in CallbackData : process_week_callback(user_id, data)
    \/ Deliver

Spec == Init /\ [][Next]_vars

\* ------------------------------------------- handlers that overlap in time
\* dp.start_polling(bot) handles every update in a task of its own, so the
\* handlers of two messages overlap: a handler runs until it awaits the
\* network in message.answer, and goes on when the answer has been sent.  The
\* awaits of state.clear, get_state, update_data, get_data and set_state on a
\* MemoryStorage do not suspend, and save_user_data and clear_user_data are
\* synchronous, so the statements between two message.answer calls run as one
\* step.  A message in outbox stands for the handler waiting in message.answer
\* and carries in `then` the state its handler sets afterwards, "end" when
\* nothing follows.

\* the largest number of handlers waiting in message.answer at a time
MaxInFlight == 2

\* A handler from the dispatch by the filters up to its message.answer.
HandleUntilAwait(user_id, text) ==
    /\ Len(outbox) < MaxInFlight
    /\ \E h \in {HandlerOf(user_id, text)} :
       \E key \in {IF h = "process_bench_press" THEN "bench_press"
                   ELSE IF h = "process_squat" THEN "squat" ELSE "deadlift"} :
          \/ /\ h = "start_command"
             /\ SetFsm(user_id, StateNone, EmptyDict)
             /\ outbox' = Append(outbox, [then |-> "MaxLiftForm:bench_press"]
                                         @@ Answer(user_id, "ask_bench_press"))
             /\ UNCHANGED db
          \/ /\ h = "reset_command"
             /\ SetFsm(user_id, StateNone, EmptyDict)
             /\ clear_user_data(user_id)
             /\ outbox' = Append(outbox, [then |-> "MaxLiftForm:bench_press"]
                                         @@ Answer(user_id, "weights_reset_ask_bench_press"))
          \/ /\ h = "cancel_command"
             /\ IF fsm_state[user_id] = StateNone
                THEN /\ outbox' = Append(outbox, [then |-> "end"]
                                                 @@ Answer(user_id, "no_active_entry"))
                     /\ UNCHANGED <<fsm_state, fsm_data>>
                ELSE /\ SetFsm(user_id, StateNone, EmptyDict)
                     /\ outbox' = Append(outbox, [then |-> "end"]
                                                 @@ Answer(user_id, "entry_cancelled"))
             /\ UNCHANGED db
          \/ /\ h \in {"process_bench_press", "process_squat", "process_deadlift"}
             /\ Lower(text) = Txt_propustit
             /\ SkipEntry(user_id, [k \in IF h = "process_bench_press" THEN Lifts
                                          ELSE IF h = "process_squat" THEN {"squat", "deadlift"}
                                          ELSE {"deadlift"} |-> FZero])
             /\ outbox' = Append(outbox, [then |-> "end"]
                                         @@ Answer(user_id, IF h = "process_deadlift"
                                                            THEN "entry_finished"
                                                            ELSE "skipped_plan_without_weights"))
          \/ /\ h \in {"process_bench_press", "process_squat", "process_deadlift"}
             /\ Lower(text) # Txt_propustit
             /\ \E v \in {validate_weight(text)} :
                \E user_data \in {update_data(fsm_data[user_id], [k \in {key} |-> v.weight])} :
                   IF ~v.is_valid
                   THEN /\ outbox' = Append(outbox, [then |-> "end"]
                                                    @@ Answer(user_id, "invalid"))
                        /\ UNCHANGED <<fsm_state, fsm_data, db>>
                   ELSE IF h = "process_deadlift"
                   THEN /\ save_user_data(user_id, user_data)
                        /\ SetFsm(user_id, StateNone, EmptyDict)
                        /\ outbox' = Append(outbox, [then |-> "end"]
                                                    @@ Answer(user_id,
                                                              IF Lifts \subseteq DOMAIN user_data
                                                              THEN "data_saved" ELSE "error"))
                   ELSE /\ fsm_data' = [fsm_data EXCEPT ![user_id] = user_data]
                        /\ outbox' = Append(outbox,
                                            [then |-> IF h = "process_bench_press"
                                                      THEN "MaxLiftForm:squat"
                                                      ELSE "MaxLiftForm:deadlift"]
                                            @@ Answer(user_id, IF h = "process_bench_press"
                                                               THEN "ask_squat"
                                                               ELSE "ask_deadlift"))
                        /\ UNCHANGED <<fsm_state, db>>
    /\ UNCHANGED engine_vars

\* message.answer returns in one of the waiting handlers, which runs to its
\* end: state.set_state(...) in start_command, reset_command, process_bench_press
\* and process_squat, nothing in the others.
ResumeAfterAwait ==
    \E i \in DOMAIN outbox :
    \E then \in {DictGet(outbox[i], "then", "end")} :
        /\ outbox' = SubSeq(outbox, 1, i - 1) \o SubSeq(outbox, i + 1, Len(outbox))
        /\ fsm_state' = IF then = "end" THEN fsm_state
                        ELSE [fsm_state EXCEPT ![outbox[i].chat] = then]
        /\ UNCHANGED <<fsm_data, db, engine_vars>>

\* init_db() on a database in which user 2 has stored maxima, and an FSM
\* storage in which user 2 has begun a new entry with the bench press 100:
\* the state after the messages /start, "100", "100", "100", /start, "100" of
\* user 2
ConcurrentInit ==
    /\ fsm_state = [u \in Users |-> IF u \in Senders THEN StateNone ELSE "MaxLiftForm:squat"]
    /\ fsm_data = [u \in Users |-> IF u \in Senders THEN EmptyDict
                                   ELSE [bench_press |-> IntToFloat(100)]]
    /\ db = [u \in Users |-> IF u \in Senders THEN NoRow
                             ELSE [bench_press |-> IntToFloat(100), squat |-> IntToFloat(100),
                                   deadlift |-> IntToFloat(100)]]
    /\ outbox = <<>>
    /\ EngineIdle

\* the messages of the sender: /start, /cancel, /reset, "100", "abc" and the
\* skip word; the button of week 1, pressed by either user
ConcurrentNext ==
    \/ \E user_id \in Senders :
       \E text \in {Cmd_start, Cmd_cancel, Cmd_reset, <<49, 48, 48>>, <<97, 98, 99>>,
                    Txt_propustit} :
          HandleUntilAwait(user_id, text)
    \/ \E user_id \in Users : process_week_callback(user_id, Txt_week_ \o <<49>>)
    \/ ResumeAfterAwait

ConcurrentSpec == ConcurrentInit /\ [][ConcurrentNext]_vars

\* ------------------------------------------------- invocations of the engine
EngineInit ==
    /\ lift10 \in LiftTenths
    /\ arg_max_lift = Literal(lift10, 10)
    /\ arg_intensity \in Intensities
    /\ arg_exercise \in Exercises
    /\ result = None
    /\ prev = None
    /\ BotIdle

\* an invocation that keeps its result in the session of user 1
Invoke_KeepsResult ==
    /\ result = None
    /\ result' = calculate_weight(arg_max_lift, arg_intensity, arg_exercise)
    /\ fsm_data' = [fsm_data EXCEPT ![1] = [last |-> result']]
    /\ UNCHANGED <<lift10, arg_max_lift, arg_intensity, arg_exercise, prev, fsm_state, db, outbox>>

\* the first invocation
Invoke ==
    /\ result = None
    /\ result' = calculate_weight(arg_max_lift, arg_intensity, arg_exercise)
    /\ UNCHANGED <<lift10, arg_max_lift, arg_intensity, arg_exercise, prev, bot_vars>>

\* a second invocation, for the next larger maximum
InvokeHeavier ==
    /\ result # None /\ result.kind = "range"
    /\ prev = None
    /\ lift10 + LiftStep <= MaxLiftSteps * LiftStep
    /\ lift10' = lift10 + LiftStep
    /\ arg_max_lift' = Literal(lift10', 10)
    /\ prev' = [op |-> "calculate_weight", lift10 |-> lift10, intensity |-> arg_intensity, exercise |-> arg_exercise,
                result |-> result]
    /\ result' = calculate_weight(arg_max_lift', arg_intensity, arg_exercise)
    /\ UNCHANGED <<arg_intensity, arg_exercise, bot_vars>>

\* a second invocation, for the next harder intensity
InvokeHarder ==
    /\ result # None /\ result.kind = "range"
    /\ prev = None
    /\ arg_intensity \in {In_legkaya, In_srednyaya}
    /\ arg_intensity' = NextIntensity(arg_intensity)
    /\ prev' = [op |-> "calculate_weight", lift10 |-> lift10, intensity |-> arg_intensity, exercise |-> arg_exercise,
                result |-> result]
    /\ result' = calculate_weight(arg_max_lift, arg_intensity', arg_exercise)
    /\ UNCHANGED <<lift10, arg_max_lift, arg_exercise, bot_vars>>

\* a second invocation for the same maximum and the same arguments in another
\* spelling: the intensity capitalised; or the exercise as it is, capitalised
\* or in upper case when it is a key in some case, and one of the names that
\* are no key otherwise
InvokeAgain ==
    /\ result # None
    /\ prev = None
    /\ IsStr(arg_intensity)
    /\ \/ /\ arg_intensity' = Capitalize(arg_intensity)
          /\ arg_exercise' = arg_exercise
       \/ /\ arg_intensity' = arg_intensity
          /\ arg_exercise' \in
                IF Lower(arg_exercise) \in DOMAIN EXERCISE_MAPPING
                THEN {arg_exercise, Capitalize(arg_exercise),
                      [i \in DOMAIN arg_exercise |-> UpperChar(arg_exercise[i])]}
                ELSE {Ex_bogus_exercise_1, Ex_bogus_exercise_2}
    /\ prev' = [op |-> "calculate_weight", lift10 |-> lift10, intensity |-> arg_intensity, exercise |-> arg_exercise,
                result |-> result]
    /\ result' = calculate_weight(arg_max_lift, arg_intensity', arg_exercise')
    /\ UNCHANGED <<lift10, arg_max_lift, bot_vars>>

\* after an invocation, the body of the loop of format_workout_plan for one
\* row, that of arg_exercise and arg_intensity, and for max_weights whose
\* bench press is arg_max_lift and whose squat and deadlift are 0.0; the line
\* is what the plan sent to chat 1 would hold
RenderRow ==
    /\ result # None
    /\ prev = None
    /\ prev' = [op |-> "format_workout_plan", lift10 |-> lift10, intensity |-> arg_intensity, exercise |-> arg_exercise,
                result |-> result]
    /\ outbox' = <<[chat |-> 1,
                    body |-> [kind |-> "line",
                              line |-> PlanLine(<<arg_exercise, arg_intensity, Day_sreda, 1>>,
                                                [bench_press |-> arg_max_lift,
                                                 squat |-> FZero, deadlift |-> FZero])]]>>
    /\ UNCHANGED <<lift10, arg_max_lift, arg_intensity, arg_exercise, result,
                   fsm_state, fsm_data, db>>

EngineNext == Invoke \/ InvokeHeavier \/ InvokeHarder \/ InvokeAgain \/ RenderRow

EngineSpec == EngineInit /\ [][EngineNext]_vars

\* ------------------------------------------------------------ claims C1-C10
\* the labels the claims call recognized
RecognizedIntensities == {In_legkaya, In_srednyaya, In_tyazhelaya}
\* the two spellings of the heavy label
HeavySpellings == {In_tyazhelaya, In_tyazhyolaya}

\* a decimal literal read back: the number of 1/d units the float x shows
Units(x, d) == IF x.m = <<>> THEN 0 ELSE RoundToInt(x.sgn, MulSmall(x.m, d, 0), x.e)
\* the profile of an exercise in the units its literals are written in: min, max
\* and inc in tenths of a kilogram, scale in hundredths
Profile(ex) ==
    LET m == Mapping(ex)
    IN [min |-> Units(m.min_weight, 10), max |-> Units(m.max_weight, 10),
        inc |-> Units(m.increment, 10), scale |-> Units(m.scale, 100)]

Returned == result # None
ReturnedRange == result # None /\ result.kind = "range"

\* C1: for a catalog exercise, a recognized intensity and max_lift >= 0 the
\* returned range has low <= high, low >= min_weight and high <= max_weight.
C1_RangeWithinProfile ==
    (Returned /\ arg_exercise \in DOMAIN EXERCISE_MAPPING
       /\ arg_intensity \in RecognizedIntensities /\ lift10 >= 0)
    => LET p == Profile(arg_exercise)
       IN /\ result.kind = "range"
          /\ result.low <= result.high
          /\ p.min <= result.low
          /\ result.high <= p.max

\* C1 witness: a range returned for a catalog exercise whose high end is the
\* profile's max_weight and whose low end is not
C1_Witness ==
    /\ ReturnedRange /\ arg_exercise = Ex_kosichka /\ arg_intensity = In_srednyaya /\ lift10 >= 0
    /\ result.high = Profile(arg_exercise).max /\ result.low < result.high

\* C2: for a catalog exercise, a recognized intensity and max_lift >= 0 both
\* ends of the returned range are exact multiples of the profile's increment,
\* also when they were clamped.
C2_MultiplesOfIncrement ==
    (Returned /\ arg_exercise \in DOMAIN EXERCISE_MAPPING
       /\ arg_intensity \in RecognizedIntensities /\ lift10 >= 0)
    => LET p == Profile(arg_exercise)
       IN /\ result.kind = "range"
          /\ result.low % p.inc = 0
          /\ result.high % p.inc = 0

Abs(n) == IF n < 0 THEN -n ELSE n
ClampTenths(t, p) == IF t < p.min THEN p.min ELSE IF t > p.max THEN p.max ELSE t
\* t tenths is what the reference computation gives for the profile p, the
\* maximum of lift tenths and the percentage pct: with num / den the exact
\* value of max_lift * scale * pct in increments, some multiple n of the
\* increment nearest to it, then clamped
IsReference(t, p, lift, pct) ==
    LET num == lift * p.scale * pct
        den == 10000 * p.inc
    IN \E n \in {num \div den, num \div den + 1} :
          /\ 2 * Abs(n * den - num) <= den
          /\ t = ClampTenths(n * p.inc, p)
RefLowPct(i) == IF i = In_legkaya THEN 50 ELSE IF i = In_srednyaya THEN 60 ELSE 70
RefHighPct(i) == RefLowPct(i) + 10

\* C3: for every exercise, recognized intensity and max_lift >= 0 the result
\* is the reference: base = max_lift * scale, the band (50,60), (60,70) or
\* (70,80) percent, each end rounded to a nearest multiple of the increment
\* and then clamped; "zhim lyozha", 100, "srednyaya" gives 60.0-70.0.
C3_EqualsReference ==
    /\ (Returned /\ arg_intensity \in RecognizedIntensities /\ lift10 >= 0)
       => LET p == Profile(arg_exercise)
          IN /\ result.kind = "range"
             /\ IsReference(result.low, p, lift10, RefLowPct(arg_intensity))
             /\ IsReference(result.high, p, lift10, RefHighPct(arg_intensity))
    /\ (Returned /\ arg_exercise = Ex_zhim_lyozha /\ arg_intensity = In_srednyaya /\ lift10 = 1000)
       => result = [kind |-> "range", low |-> 600, high |-> 700]

\* C3 witness: the concrete scenario has been computed
C3_Witness ==
    /\ ReturnedRange /\ arg_exercise = Ex_zhim_lyozha /\ arg_intensity = In_srednyaya
    /\ lift10 = 1000 /\ result.low = 600

\* the previous invocation was for a smaller (or equal) non-negative maximum,
\* the same intensity and the same exercise
HeavierPair ==
    /\ prev # None /\ prev.exercise = arg_exercise
    /\ prev.intensity = arg_intensity /\ arg_intensity \in RecognizedIntensities
    /\ 0 <= prev.lift10 /\ prev.lift10 <= lift10

\* C4: with exercise and recognized intensity fixed, a <= b (both >= 0) gives
\* low(a) <= low(b) and high(a) <= high(b).
C4_Monotone ==
    HeavierPair => /\ prev.result.kind = "range" /\ result.kind = "range"
                   /\ prev.result.low <= result.low
                   /\ prev.result.high <= result.high

\* C4 witness: two invocations in a row, the second with a larger maximum and
\* a larger low end
C4_Witness == HeavierPair /\ ReturnedRange /\ prev.result.low < result.low

\* none of the values computed for the three intensities is changed by the
\* clamp: the smallest (50 percent) and the largest (80 percent) rounded value
\* lie in [min_weight, max_weight], and so do those between them
Rounded(m, pct) == RoundToIncrement(FMul(FMul(arg_max_lift, m.scale), pct), m)
NoClamping ==
    LET m == Mapping(arg_exercise)
    IN /\ FCmp(m.min_weight, Rounded(m, Pct50)) <= 0
       /\ FCmp(Rounded(m, Pct80), m.max_weight) <= 0

\* the previous invocation was for the next lighter intensity, the same maximum
\* and the same exercise
HarderPair ==
    /\ prev # None /\ prev.exercise = arg_exercise
    /\ prev.lift10 = lift10 /\ prev.intensity \in RecognizedIntensities
    /\ arg_intensity = NextIntensity(prev.intensity) /\ prev.intensity # arg_intensity

\* C5 as stated: where nothing is clamped, light < medium < heavy, strictly, at
\* both ends.
C5_StrictOrdering ==
    (HarderPair /\ NoClamping)
    => /\ prev.result.low < result.low
       /\ prev.result.high < result.high

\* C5 amended: where nothing is clamped, light <= medium <= heavy at both ends
\* (rounding to the increment can make two intensities equal).
C5_WeakOrdering ==
    (HarderPair /\ NoClamping)
    => /\ prev.result.kind = "range" /\ result.kind = "range"
       /\ prev.result.low <= result.low
       /\ prev.result.high <= result.high

\* C5 witness: unclamped medium and heavy results that differ at both ends
C5_Witness ==
    /\ HarderPair /\ NoClamping /\ arg_intensity = In_tyazhelaya
    /\ prev.result.low < result.low /\ prev.result.high < result.high

\* the stored maximum a plan for user_id uses for an exercise: that of the
\* main lift of its profile
StoredMax(user_id, ex) == load_user_data(user_id)[Mapping(ex).main_lift]
\* the plans among the messages sent
IsPlan(msg) == msg.body.kind = "plan"

\* C6: in every rendered plan a line whose exercise has a stored maximum of 0
\* carries the placeholder and no computed weight, and a line carries the
\* result of calculate_weight only when that maximum is > 0.
C6_ZeroMaxGetsPlaceholder ==
    \A i \in DOMAIN outbox :
        IsPlan(outbox[i]) =>
            \A j \in DOMAIN outbox[i].body.lines :
                LET line == outbox[i].body.lines[j]
                    stored == StoredMax(outbox[i].chat, line.exercise)
                IN /\ stored = FZero => line.weight = PlaceholderText
                   /\ line.weight # PlaceholderText
                        => (stored # None /\ FCmp(stored, FZero) > 0)

\* C6 witness: a plan with a line of an exercise whose maximum is 0, carrying
\* the placeholder, and a line with a computed range
C6_Witness ==
    \E i \in DOMAIN outbox :
        /\ IsPlan(outbox[i])
        /\ \E j \in DOMAIN outbox[i].body.lines :
              /\ StoredMax(outbox[i].chat, outbox[i].body.lines[j].exercise) = FZero
              /\ outbox[i].body.lines[j].weight = PlaceholderText
        /\ \E j \in DOMAIN outbox[i].body.lines :
              outbox[i].body.lines[j].weight.kind = "range"

\* C7: invoked with max_lift = 0 and a recognized intensity, both ends equal
\* the profile's min_weight, for known and unknown exercises.
C7_ZeroGivesMinWeight ==
    (Returned /\ lift10 = 0 /\ arg_intensity \in RecognizedIntensities)
    => /\ result.kind = "range"
       /\ result.low = Profile(arg_exercise).min
       /\ result.high = Profile(arg_exercise).min

\* C7 witness: an invocation with max_lift = 0 for a name that is no key
C7_Witness ==
    /\ ReturnedRange /\ lift10 = 0 /\ arg_exercise = Ex_bogus_exercise_1
    /\ arg_intensity = In_tyazhelaya /\ result.low = 50

\* C8: an intensity token that is none of the labels gives the
\* unrecognized-intensity text and no range, for every exercise and max_lift.
\* (Whether the second heavy spelling is a label is what C10 is about; it is
\* left out here.)
C8_UnknownIntensity ==
    (Returned /\ IsStr(arg_intensity)
       /\ Lower(arg_intensity) \notin RecognizedIntensities \cup HeavySpellings)
    => result = UnknownIntensityText

\* C8 witness: the skip word passed as the intensity
C8_Witness == Returned /\ arg_intensity = Txt_propustit /\ result = UnknownIntensityText

\* C9: for a negative max_lift the engine fails with an error outcome and
\* returns no weight range, whatever the exercise and the intensity.  Stated
\* by its weakest part: what is returned is no range.
C9_NegativeRejected ==
    (Returned /\ lift10 < 0) => result.kind # "range"

\* the range of the (0.70, 0.80) band for the arguments of the last invocation
HeavyBandRange ==
    LET m == Mapping(arg_exercise)
    IN RangeText(RoundAndClamp(FMul(FMul(arg_max_lift, m.scale), Pct70), m),
                 RoundAndClamp(FMul(FMul(arg_max_lift, m.scale), Pct80), m))
\* C10: both spellings of the heavy label give the same range, that of the
\* (0.70, 0.80) band, for every exercise and max_lift.
C10_HeavySpellingsAgree ==
    (Returned /\ arg_intensity \in HeavySpellings /\ lift10 >= 0) => result = HeavyBandRange

\* ----------------------------------------------------------- claims C11-C20
\* the name is a key of the catalog in some spelling of upper and lower case
IsKey(ex) == Lower(ex) \in DOMAIN EXERCISE_MAPPING
\* the default profile as the claim gives it: min 5.0, max 80.0, increment
\* 2.5 (in tenths), scale 0.3 (in hundredths)
ClaimedDefault == [min |-> 50, max |-> 800, inc |-> 25, scale |-> 30]
\* the lines RenderRow has rendered
RenderedLines == {outbox[i].body.line : i \in {j \in DOMAIN outbox : outbox[j].body.kind = "line"}}

\* C11: for a name that is no key the lookup does not fail and the result is
\* that of the default profile (scale 0.3, min 5.0, max 80.0, increment 2.5);
\* two names that are no key give the same result for the same max_lift and
\* intensity; and the line the plan renderer makes for such a name carries the
\* weight computed from the bench press maximum.
C11_UnknownExerciseFallback ==
    /\ (Returned /\ ~IsKey(arg_exercise) /\ IsStr(arg_intensity))
       => /\ result # ErrorText
          /\ (Lower(arg_intensity) \in RecognizedIntensities /\ lift10 >= 0)
             => /\ result.kind = "range"
                /\ IsReference(result.low, ClaimedDefault, lift10,
                               RefLowPct(Lower(arg_intensity)))
                /\ IsReference(result.high, ClaimedDefault, lift10,
                               RefHighPct(Lower(arg_intensity)))
    /\ (prev # None /\ ~IsKey(prev.exercise) /\ ~IsKey(arg_exercise)
          /\ prev.lift10 = lift10 /\ prev.intensity = arg_intensity)
       => result = prev.result
    /\ \A line \in RenderedLines :
          (~IsKey(arg_exercise) /\ IsStr(arg_intensity) /\ lift10 > 0)
          => (line # Raised /\ line.weight = result)

\* C11 witness: a name that is no key invoked after the other one, with a
\* range that is not clamped
C11_Witness ==
    /\ prev # None /\ prev.exercise = Ex_bogus_exercise_1 /\ arg_exercise = Ex_bogus_exercise_2
    /\ prev.intensity = arg_intensity /\ lift10 = 1000
    /\ ReturnedRange /\ result = [kind |-> "range", low |-> 150, high |-> 175]

\* C12: a catalog name in any spelling of upper and lower case resolves to the
\* profile of the lower-case name, and the intensity label is matched without
\* regard to case: two invocations whose exercise names and intensity labels
\* differ only in case, with the same max_lift, return the same result.
C12_CaseInsensitive ==
    (/\ prev # None /\ prev.lift10 = lift10
     /\ IsKey(arg_exercise) /\ Lower(prev.exercise) = Lower(arg_exercise)
     /\ IsStr(arg_intensity) /\ IsStr(prev.intensity)
     /\ Lower(prev.intensity) = Lower(arg_intensity))
    => result = prev.result

\* C12 witness: a lower-case catalog name, then the same name in another
\* spelling, both returning a range
C12_Witness ==
    /\ prev # None /\ prev.lift10 = lift10 /\ prev.intensity = arg_intensity
    /\ prev.exercise \in DOMAIN EXERCISE_MAPPING /\ arg_exercise # prev.exercise
    /\ Lower(arg_exercise) = prev.exercise
    /\ ReturnedRange /\ result = prev.result

\* t tenths is the multiple of the increment that round-half-to-even gives for
\* the profile p, the maximum of lift tenths and the percentage pct, then
\* clamped: the even multiple when max_lift * scale * pct / increment is
\* halfway between two integers, the nearest multiple otherwise
IsHalfEven(t, p, lift, pct) ==
    LET num == lift * p.scale * pct
        den == 10000 * p.inc
        n == num \div den
    IN IF 2 * (num % den) = den
       THEN t = ClampTenths((IF n % 2 = 0 THEN n ELSE n + 1) * p.inc, p)
       ELSE IsReference(t, p, lift, pct)

\* C13: rounding ties go to the even multiple: whenever raw / increment is
\* exactly halfway between two integers the prescribed value is the even
\* multiple of the increment ("shragi s gantelyami", 150, heavy: low raw 21,
\* increment 2, gives 20.0), and otherwise the nearest multiple.
C13_TiesToEven ==
    (/\ Returned /\ arg_exercise \in DOMAIN EXERCISE_MAPPING
     /\ arg_intensity \in RecognizedIntensities /\ lift10 >= 0)
    => /\ result.kind = "range"
       /\ IsHalfEven(result.low, Profile(arg_exercise), lift10, RefLowPct(arg_intensity))
       /\ IsHalfEven(result.high, Profile(arg_exercise), lift10, RefHighPct(arg_intensity))

\* C14: the engine has a single-point mode, in which the intensity maps to one
\* percentage (light 0.60, medium 0.70, heavy 0.80) and one weight is
\* returned: "shragi s gantelyami" with the maximum 150 and heavy intensity
\* yields the one value 24.0.
C14_SinglePoint ==
    (/\ Returned /\ arg_exercise = Ex_shragi_s_gantelyami
     /\ lift10 = 1500 /\ arg_intensity = In_tyazhelaya)
    => result = [kind |-> "point", value |-> 240]

\* a profile, as the floats the code computes with, is well formed
WellFormed(mapping) ==
    /\ mapping.main_lift \in Lifts
    /\ FCmp(mapping.scale, FZero) > 0
    /\ FCmp(mapping.increment, FZero) > 0
    /\ FCmp(mapping.min_weight, FZero) >= 0
    /\ FCmp(mapping.min_weight, mapping.max_weight) <= 0

\* C15: in every reachable state every profile of EXERCISE_MAPPING and the
\* default profile has its lift among bench_press, squat and deadlift, a
\* scale > 0, an increment > 0 and 0 <= min_weight <= max_weight; so has the
\* profile looked up for every exercise of a rendered plan.
C15_CatalogWellFormed ==
    LET rendered == UNION {{outbox[i].body.lines[j].exercise : j \in DOMAIN outbox[i].body.lines} :
                           i \in {k \in DOMAIN outbox : IsPlan(outbox[k])}}
    IN /\ \A key \in DOMAIN EXERCISE_MAPPING \cup rendered : WellFormed(Mapping(key))
       /\ WellFormed(Floats(DefaultMapping))

\* C15 witness: maxima are stored and a plan computed from the catalog has
\* been rendered
C15_Witness ==
    /\ \E u \in Users : db[u] # NoRow
    /\ \E i \in DOMAIN outbox :
          /\ IsPlan(outbox[i])
          /\ \E j \in DOMAIN outbox[i].body.lines :
                outbox[i].body.lines[j].weight.kind = "range"

\* a step that is one invocation of calculate_weight and nothing else: the
\* first one, or a later one, which records the invocation before it
Invocation ==
    \/ result = None /\ result' # None
    \/ prev = None /\ prev' # None /\ prev'.op = "calculate_weight"

HandlesReset(user_id) ==
    \E text \in {t \in Texts : IsCommand(t, Cmd_reset)} :
        \/ reset_command(user_id, text)
        \/ process_bench_press(user_id, text)
        \/ process_squat(user_id, text)
        \/ process_deadlift(user_id, text)

\* C17: in every session state of a user (idle, or waiting for the bench
\* press, squat or deadlift entry) a /reset message deletes the stored maxima
\* of that user and puts the session into the bench press entry state.
C17_ResetInEveryState ==
    [][\A user_id \in Senders :
          HandlesReset(user_id)
          => /\ db'[user_id] = NoRow
             /\ fsm_state'[user_id] = "MaxLiftForm:bench_press"]_vars

\* the texts of the runs that are valid numbers, with the numbers they denote
ValidNumbers == {[text |-> <<49, 48, 48>>, value |-> IntToFloat(100)],
                 [text |-> <<48>>, value |-> FZero]}
\* the one message sent by the step has this kind
Answered(user_id, kind) ==
    /\ outbox' # <<>>
    /\ outbox'[Len(outbox')].chat = user_id /\ outbox'[Len(outbox')].body.kind = kind

C19_SkipGivesPlaceholders ==
    \A i \in DOMAIN outbox :
        outbox[i].body.kind = "skipped_plan_without_weights"
        => LET plan == format_workout_plan(<<>>, outbox[i].chat)
           IN plan.kind = "plan"
              => \A j \in DOMAIN plan.lines : plan.lines[j].weight = PlaceholderText

\* v is a number with 0 <= v <= 1000
IsMaximum(v) ==
    /\ IsFinite(v)
    /\ FCmp(v, FZero) >= 0
    /\ FCmp(v, IntToFloat(1000)) <= 0

\* C20: in every reachable state each stored maximum of every user is a
\* number v with 0 <= v <= 1000, and validate_weight accepts a text only if
\* it denotes such a number.
C20_StoredMaximaInRange ==
    /\ \A u \in Users : db[u] # NoRow => \A k \in Lifts : IsMaximum(db[u][k])
    /\ \A u \in Users : \A k \in DOMAIN fsm_data[u] : IsMaximum(fsm_data[u][k])

\* ----------------------------------------------------------- claims C21-C26
\* the texts of the runs that validate_weight rejects and that are not the
\* skip word
RejectedTexts == {t \in Texts : Lower(t) # Txt_propustit /\ ~validate_weight(t).is_valid}
\* the step is the handling of text by the entry handler of the state the
\* session of user_id is in
EntryStep(user_id, text) ==
    \/ process_bench_press(user_id, text)
    \/ process_squat(user_id, text)
    \/ process_deadlift(user_id, text)

\* C21: a message received in one of the three entry states that fails
\* validate_weight and is not the skip word leaves the session in the same
\* entry state, the values entered in the session and the stored maxima
\* unchanged; one error reply is sent and nothing else.
C21_RejectedChangesNothing ==
    [][\A user_id \in Senders : \A text \in RejectedTexts :
          EntryStep(user_id, text)
          => /\ fsm_state' = fsm_state /\ fsm_data' = fsm_data /\ db' = db
             /\ Len(outbox') = 1 /\ Answered(user_id, "invalid")]_vars

\* C21 witness: the error reply to a rejected text, in the deadlift entry
\* state with two values entered and maxima stored before
C21_Witness ==
    /\ fsm_state[1] = "MaxLiftForm:deadlift" /\ DOMAIN fsm_data[1] = {"bench_press", "squat"}
    /\ db[1] # NoRow
    /\ outbox # <<>> /\ outbox[1].body.kind = "invalid"

\* the skip word in the spellings of the runs
SkipTexts == {t \in Texts : Lower(t) = Txt_propustit}
\* the row of the three maxima
Triple(b, s, d) == [bench_press |-> b, squat |-> s, deadlift |-> d]

\* C22: the skip word ends the entry session and writes the store with every
\* lift not yet entered set to 0.0 and every lift entered in the session
\* kept: a skip at the bench press step stores (0, 0, 0), at the squat step
\* (bench, 0, 0), at the deadlift step (bench, squat, 0).
C22_SkipSemantics ==
    [][\A user_id \in Senders : \A text \in SkipTexts :
          /\ process_bench_press(user_id, text)
             => /\ fsm_state'[user_id] = StateNone
                /\ db'[user_id] = Triple(FZero, FZero, FZero)
          /\ process_squat(user_id, text)
             => /\ fsm_state'[user_id] = StateNone
                /\ db'[user_id] = Triple(fsm_data[user_id].bench_press, FZero, FZero)
          /\ process_deadlift(user_id, text)
             => /\ fsm_state'[user_id] = StateNone
                /\ db'[user_id] = Triple(fsm_data[user_id].bench_press,
                                         fsm_data[user_id].squat, FZero)]_vars

\* C23: when an entry is in progress /cancel makes the session idle, discards
\* the values entered so far and leaves the stored maxima as they were when
\* the entry began (no step inside a session writes the row of the user);
\* when no entry is in progress /cancel changes neither the session nor the
\* store.
C23_CancelFrame ==
    [][\A user_id \in Senders :
          /\ (\E text \in Texts : cancel_command(user_id, text))
             => /\ fsm_state'[user_id] = StateNone
                /\ fsm_data'[user_id] = EmptyDict
                /\ db' = db
                /\ fsm_state[user_id] = StateNone
                   => /\ fsm_data' = fsm_data
                      /\ Len(outbox') = 1 /\ Answered(user_id, "no_active_entry")
                /\ fsm_state[user_id] # StateNone
                   => Len(outbox') = 1 /\ Answered(user_id, "entry_cancelled")
          /\ (fsm_state[user_id] # StateNone /\ fsm_state'[user_id] # StateNone)
             => db'[user_id] = db[user_id]]_vars

\* C23 witness: an entry begun after maxima were stored has been cancelled,
\* and the maxima are still there
C23_Witness ==
    /\ fsm_state[1] = StateNone /\ fsm_data[1] = EmptyDict
    /\ db[1] = Triple(IntToFloat(100), FZero, IntToFloat(100))
    /\ outbox # <<>> /\ outbox[1].body.kind = "entry_cancelled"

\* the lifts entered so far in a session that is in the state s
EnteredIn(s) ==
    IF s = "MaxLiftForm:squat" THEN {"bench_press"}
    ELSE IF s = "MaxLiftForm:deadlift" THEN {"bench_press", "squat"}
    ELSE {}
\* the texts of the runs that validate_weight accepts
AcceptedTexts == {t \in Texts : Lower(t) # Txt_propustit /\ validate_weight(t).is_valid}

\* C24: every value a save writes to the store comes from the current entry
\* session or is the 0.0 of a skip, and no value typed in a session that was
\* abandoned by /cancel or restarted by /start or /reset is persisted later:
\* a session holds values for the lifts entered in it and for nothing else,
\* each being the value typed at its step, and a row written is made of the
\* values the session holds, the value typed in the step, and 0.0.
C24_NoLeakBetweenSessions ==
    [][\A user_id \in Senders :
          /\ DOMAIN fsm_data'[user_id] = EnteredIn(fsm_state'[user_id])
          /\ \A text \in AcceptedTexts :
                /\ process_bench_press(user_id, text)
                   => fsm_data'[user_id] = [bench_press |-> validate_weight(text).weight]
                /\ process_squat(user_id, text)
                   => fsm_data'[user_id] = [bench_press |-> fsm_data[user_id].bench_press,
                                           squat |-> validate_weight(text).weight]
          /\ (db'[user_id] # db[user_id] /\ db'[user_id] # NoRow)
             => \A k \in Lifts :
                   IF k \in DOMAIN fsm_data[user_id]
                   THEN db'[user_id][k] = SqlReal(fsm_data[user_id][k])
                   ELSE \/ db'[user_id][k] = FZero
                        \/ \E text \in AcceptedTexts :
                              /\ process_deadlift(user_id, text)
                              /\ k = "deadlift"
                              /\ db'[user_id][k] = SqlReal(validate_weight(text).weight)]_vars

\* C24 witness: a session with the entries 0 and 100 and a skip of the
\* deadlift has been saved
C24_Witness ==
    /\ fsm_state[1] = StateNone /\ fsm_data[1] = EmptyDict
    /\ db[1] = Triple(FZero, IntToFloat(100), FZero)
    /\ outbox # <<>> /\ outbox[1].body.kind = "entry_finished"

\* the weight of a plan line for the exercise ex and the intensity, computed
\* from the row the table holds for user_id and from nothing else
OwnWeight(user_id, intensity, ex) ==
    LET own == IF db[user_id] = NoRow THEN FZero ELSE db[user_id][Mapping(ex).main_lift]
    IN IF FCmp(own, FZero) > 0 THEN calculate_weight(own, intensity, ex) ELSE PlaceholderText

\* C25: a message of user A changes neither the stored maxima nor the
\* session state nor the entered values of another user B, also when the
\* handlers of A's messages overlap in time; and the plan rendered for a
\* user is computed from that user's stored maxima only.  A step belongs to
\* user A when it puts an answer for A's chat in flight or completes one.
C25_UserIsolation ==
    [][/\ \A a \in Users : \A b \in Users \ {a} :
             (\/ /\ Len(outbox') = Len(outbox) + 1
                 /\ outbox'[Len(outbox')].chat = a
              \/ /\ Len(outbox') = Len(outbox) - 1
                 /\ \E i \in DOMAIN outbox :
                       /\ outbox[i].chat = a
                       /\ outbox' = SubSeq(outbox, 1, i - 1)
                                     \o SubSeq(outbox, i + 1, Len(outbox)))
             => /\ db'[b] = db[b]
                /\ fsm_state'[b] = fsm_state[b]
                /\ fsm_data'[b] = fsm_data[b]
       /\ (Len(outbox') = Len(outbox) + 1 /\ IsPlan(outbox'[Len(outbox')]))
          => \A j \in DOMAIN outbox'[Len(outbox')].body.lines :
                LET plan == outbox'[Len(outbox')]
                    line == plan.body.lines[j]
                IN line.weight = OwnWeight(plan.chat, line.intensity, line.exercise)]_vars

\* C25 witness: the plan of week 1 has been rendered for user 2, whose stored
\* maxima are 100, 100, 100 and who is entering new ones, while user 1 has
\* stored 100, 0, 0
C25_Witness ==
    /\ db[1] = Triple(IntToFloat(100), FZero, FZero)
    /\ db[2] = Triple(IntToFloat(100), IntToFloat(100), IntToFloat(100))
    /\ fsm_state[2] = "MaxLiftForm:squat"
    /\ outbox # <<>> /\ outbox[1].chat = 2 /\ IsPlan(outbox[1])
    /\ \E j \in DOMAIN outbox[1].body.lines : outbox[1].body.lines[j].weight.kind = "range"

\* C26: when the handlers of two messages of one user overlap in time, every
\* triple written to the store is still the complete triple entered in one
\* session or a skip triple: at a save the session holds the value of every
\* lift whose step the session has passed, so that no 0.0 is written by
\* default in place of a number the user entered.
C26_SameUserInterleaving ==
    [][\A user_id \in Senders :
          (db'[user_id] # db[user_id] /\ db'[user_id] # NoRow)
          => EnteredIn(fsm_state[user_id]) \subseteq DOMAIN fsm_data[user_id]]_vars
====
